---- MODULE Spec2Model ----
(***************************************************************************)
(* Appleseed: the prospect lifecycle (scan -> qualify -> outreach ->       *)
(* verify -> airdrop), the daily ledger and the Distributor guards.        *)
(*                                                                         *)
(* One step of the model is the code that runs between two suspension      *)
(* points (awaits on an external call) of a stage.  The store is the       *)
(* SQLite database of db.ts; every stage reads and writes it directly.     *)
(***************************************************************************)
EXTENDS Integers, Sequences, FiniteSets, TLC

\* ------------------------------------------------------------------------
\* Bounds of the model
\* ------------------------------------------------------------------------
NumUsers == 2            \* GitHub accounts the searches can return
MaxDailyPRs == 1         \* configured MAX_DAILY_PRS
MaxDailyAirdrops == 2    \* configured MAX_DAILY_AIRDROPS
MaxEvidence == 2         \* matched repos of the prospect the Qualifier is tried on
MaxDays == 2             \* calendar dates the ledger is followed over
MaxBody == 40            \* characters after the two-letter prefix of an address text
MaxGap == 9              \* days between the lastUpdated of two matched repos
MaxComments == 2         \* comments on the PR of the prospect the Verifier is tried on
MaxKills == 2            \* times a process is killed right after a broadcast, per prospect

\* ------------------------------------------------------------------------
\* Program constants
\* ------------------------------------------------------------------------
MIN_TREASURY_BALANCE == 100000
AirdropTierA == 10000
AirdropTierB == 5000
AirdropTierC == 2500

WEIGHTS == [CLAUDE_MCP |-> 30, AI_AGENT |-> 25, STARS |-> 15,
            ACTIVITY |-> 15, FOLLOWERS |-> 10, CRYPTO |-> 5]

\* Nulls of the nullable columns (one per column type).
NullTier == "null"
NullAddr == "null"
NullInt == 0

Usernames == 1 .. NumUsers
AirdropRuns == {1, 2}             \* slots for airdrop() invocations

Min(a, b) == IF a <= b THEN a ELSE b
Max(a, b) == IF a >= b THEN a ELSE b

RECURSIVE SumSeq(_)
SumSeq(s) == IF s = <<>> THEN 0 ELSE Head(s) + SumSeq(Tail(s))

RECURSIVE FilterSeq(_, _)
\* Array.prototype.filter: the elements of s whose index is in keep, in order.
FilterSeq(s, keep) ==
    IF s = <<>> THEN <<>>
    ELSE LET rest == FilterSeq(Tail(s), {i - 1 : i \in keep \ {1}})
         IN  IF 1 \in keep THEN <<Head(s)>> \o rest ELSE rest

\* Array.prototype.slice(0, end): a negative end counts from the back.
Slice0(s, end) ==
    LET n == Len(s)
        e == IF end < 0 THEN Max(n + end, 0) ELSE Min(end, n)
    IN  SubSeq(s, 1, e)

\* ------------------------------------------------------------------------
\* Qualifier (qualifier.ts).  A matched repo is abstracted to what the
\* string tests of the scoring functions see in it:
\*   mcp    - query/name/description contains an MCP indicator
\*   agent  - the points of the best agent pattern contained (0 if none)
\*   crypto - contains a crypto indicator
\*   stars  - star count,  age - days since lastUpdated
\* ------------------------------------------------------------------------
Repo(m, a, c, s, d) == [mcp |-> m, agent |-> a, crypto |-> c, stars |-> s, age |-> d]

scoreClaudeMcp(repos) ==
    IF \E i \in 1 .. Len(repos) : repos[i].mcp THEN WEIGHTS.CLAUDE_MCP ELSE 0

RECURSIVE MaxAgent(_)
MaxAgent(repos) ==
    IF repos = <<>> THEN 0 ELSE Max(Head(repos).agent, MaxAgent(Tail(repos)))

scoreAiAgent(repos) == Min(MaxAgent(repos), WEIGHTS.AI_AGENT)

\* scoreStars, preceded by a variant that forgets the cap.
scoreStars_uncapped(repos) ==
    SumSeq([i \in 1 .. Len(repos) |-> repos[i].stars]) \div 10

scoreStars(repos) ==
    Min(SumSeq([i \in 1 .. Len(repos) |-> repos[i].stars]) \div 10, WEIGHTS.STARS)

scoreActivity(repos) ==
    IF repos = <<>> THEN 0
    ELSE LET mostRecent == CHOOSE d \in {repos[i].age : i \in 1 .. Len(repos)} :
                               \A i \in 1 .. Len(repos) : d <= repos[i].age
         IN  IF mostRecent <= 30 THEN WEIGHTS.ACTIVITY
             ELSE IF mostRecent <= 90 THEN 10
             ELSE IF mostRecent <= 180 THEN 5
             ELSE 0

scoreFollowers(repos) == 0

scoreCrypto(repos) ==
    IF \E i \in 1 .. Len(repos) : repos[i].crypto THEN WEIGHTS.CRYPTO ELSE 0

\* getTier, preceded by a variant that gives no tier below the tier-C cut.
getTier_noD(score) ==
    IF score >= 70 THEN "A"
    ELSE IF score >= 40 THEN "B"
    ELSE IF score >= 20 THEN "C"
    ELSE NullTier

getTier(score) ==
    IF score >= 70 THEN "A"
    ELSE IF score >= 40 THEN "B"
    ELSE IF score >= 20 THEN "C"
    ELSE "D"

qualifyProspect(repos) ==
    LET score == scoreClaudeMcp(repos) + scoreAiAgent(repos) + scoreStars(repos)
                 + scoreActivity(repos) + scoreFollowers(repos) + scoreCrypto(repos)
    IN  [score |-> score, tier |-> getTier(score)]

\* What the searches return for each account (scanner.ts builds one
\* MatchedRepo per search hit and merges the hits of one user).
SearchHits ==
    << <<Repo(TRUE, 0, FALSE, 120, 5)>>,                                \* 57: B
       <<Repo(FALSE, 0, FALSE, 50, 200)>>,                              \*  5: D
       <<Repo(TRUE, 25, FALSE, 40, 3), Repo(FALSE, 15, TRUE, 90, 20)>>, \* 88: A
       <<Repo(FALSE, 15, FALSE, 0, 100)>> >>                            \* 20: C

ReposOf(u) == SearchHits[((u - 1) % Len(SearchHits)) + 1]

\* ------------------------------------------------------------------------
\* State
\* ------------------------------------------------------------------------
VARIABLES
    prospects,     \* table prospects: sequence indexed by row id
    today,         \* the UTC calendar date of the system clock
    daily_limits,  \* table daily_limits: date -> counters (rows created lazily)
    logged,        \* the rows the last step appended to table activity_log
    qrun,          \* the qualify() invocation and its result, until it returns
    orun,          \* the outreach() invocation in progress, if any
    vrun,          \* the verify() invocation in progress, if any
    arun,          \* the airdrop() invocations in progress, by slot
    wcall,         \* an isValidStacksAddress() call on its own: the text
                   \* passed and the value returned
    thread,        \* the comments GitHub holds on the PR of a prospect whose
                   \* verification is followed on its own
    daemon,        \* the daemon process: whether its interval timer is set,
                   \* and where each pipeline run under way stands
    chain          \* transfers broadcast to the network: for each prospect
                   \* id, the slots of the runs that broadcast one, in order

vars == <<prospects, today, daily_limits, logged, qrun, orun, vrun, arun, wcall, daemon, thread, chain>>

Ids == 1 .. Len(prospects)

\* The configuration snapshot (config.ts loadConfig).
config == [maxDailyPRs |-> MaxDailyPRs, maxDailyAirdrops |-> MaxDailyAirdrops,
           airdropTierA |-> AirdropTierA, airdropTierB |-> AirdropTierB,
           airdropTierC |-> AirdropTierC]

\* ------------------------------------------------------------------------
\* Store (db.ts)
\* ------------------------------------------------------------------------
usernameExists(u) == \E i \in Ids : prospects[i].githubUsername = u

NewProspect(u, repos) ==
    [githubUsername |-> u, repos |-> repos,
     score |-> 0, tier |-> NullTier,
     outreachStatus |-> "pending", prUrl |-> NullInt, prNumber |-> NullInt,
     stacksAddress |-> NullAddr, addressValid |-> FALSE,
     airdropStatus |-> "pending", airdropTxid |-> NullInt,
     airdropAmountSats |-> NullInt,
     createdAt |-> today]

\* COALESCE(?, column)
Coalesce(new, old) == IF new # NullInt THEN new ELSE old

updateProspectScore(ps, id, score, tier) ==
    [ps EXCEPT ![id].score = score, ![id].tier = tier]

updateProspectOutreach(ps, id, status, prUrl, prNumber) ==
    [ps EXCEPT ![id].outreachStatus = status,
               ![id].prUrl = Coalesce(prUrl, @),
               ![id].prNumber = Coalesce(prNumber, @)]

updateProspectVerification(ps, id, address, valid) ==
    [ps EXCEPT ![id].stacksAddress = address, ![id].addressValid = valid]

updateProspectAirdrop(ps, id, status, txid, amount) ==
    [ps EXCEPT ![id].airdropStatus = status,
               ![id].airdropTxid = Coalesce(txid, @),
               ![id].airdropAmountSats = Coalesce(amount, @)]

ZeroRow == [prsOpened |-> 0, airdropsSent |-> 0]

\* getDailyLimits(): the ledger after the lazy creation of today's row.
EnsureToday(dl) ==
    IF today \in DOMAIN dl THEN dl
    ELSE [d \in DOMAIN dl \cup {today} |-> IF d = today THEN ZeroRow ELSE dl[d]]

getDailyLimits(dl) == EnsureToday(dl)[today]

incrementDailyPRs(dl) ==
    [EnsureToday(dl) EXCEPT ![today].prsOpened = @ + 1]

\* incrementDailyAirdrops, preceded by a variant whose UPDATE has no
\* WHERE clause.
incrementDailyAirdrops_allDates(dl) ==
    [d \in DOMAIN EnsureToday(dl) |->
        [EnsureToday(dl)[d] EXCEPT !.airdropsSent = @ + 1]]

incrementDailyAirdrops(dl) ==
    [EnsureToday(dl) EXCEPT ![today].airdropsSent = @ + 1]

\* logActivity(action, prospectId): the row appended.
logActivity(action, id) == [action |-> action, prospectId |-> id]

\* The orders in which "ORDER BY created_at DESC" can return the rows ids:
\* rows with equal created_at come in an order the query does not fix.
OrderedRows(ids) ==
    {s \in [1 .. Cardinality(ids) -> ids] :
        /\ \A i, j \in DOMAIN s : i # j => s[i] # s[j]
        /\ \A i, j \in DOMAIN s :
              i < j => prospects[s[i]].createdAt >= prospects[s[j]].createdAt}

\* A row as the stage sees it: rowToProspect of the row, with its id.
Snapshot(id) == [id |-> id, p |-> prospects[id]]
Snapshots(order) == [i \in DOMAIN order |-> Snapshot(order[i])]

\* ------------------------------------------------------------------------
\* Idle stages
\* ------------------------------------------------------------------------
IdleQ ==
    [pc |-> "idle", opts |-> [prospectId |-> NullInt, pending |-> FALSE, minTier |-> NullTier],
     qualified |-> 0, skipped |-> 0]

IdleO ==
    [pc |-> "idle",
     opts |-> [limit |-> 0, dryRun |-> FALSE, named |-> FALSE, prospectId |-> NullInt],
     queue |-> <<>>, records |-> <<>>,
     sent |-> 0, failed |-> 0, skipped |-> 0, calls |-> 0, threw |-> FALSE]

IdleV == [pc |-> "idle", queue |-> <<>>, verified |-> 0, invalid |-> 0, pending |-> 0]

\* The daemon is not running: no timer, no pipeline run.
IdleD == [interval |-> FALSE, runs |-> [k \in AirdropRuns |-> "idle"]]

\* No isValidStacksAddress() call of its own under way.
IdleW == [pc |-> "idle", address |-> <<>>, result |-> FALSE]

IdleA ==
    [pc |-> "idle", opts |-> [limit |-> 0, amount |-> NullInt],
     effectiveLimit |-> 0, treasuryBalance |-> 0,
     queue |-> <<>>, amount |-> 0, transactions |-> <<>>,
     sent |-> 0, confirmed |-> 0, failed |-> 0, skipped |-> 0,
     calls |-> 0, threw |-> FALSE, attempt |-> 0]

Init ==
    /\ prospects = <<>>
    /\ today = 1
    /\ daily_limits = <<>>
    /\ logged = {}
    /\ qrun = IdleQ
    /\ orun = IdleO
    /\ vrun = IdleV
    /\ arun = [r \in AirdropRuns |-> IdleA]
    /\ wcall = IdleW
    /\ daemon = IdleD
    /\ thread = <<>>
    /\ chain = <<>>

\* ------------------------------------------------------------------------
\* Scanner (scanner.ts): saves one search result
\* ------------------------------------------------------------------------
\* No stage is between two of its steps.
AllIdle ==
    /\ qrun.pc = "idle"
    /\ orun.pc = "idle"
    /\ vrun.pc = "idle"
    /\ \A r \in AirdropRuns : arun[r].pc = "idle"

\* A stage command runs in a process of its own, from start to exit: the
\* next command starts when the last one has exited.
NoRunActive == AllIdle /\ logged = {}

\* The process of a scan, qualify or manual-verify command exits after the
\* step that did its work (main() closes the database).
CommandExit ==
    /\ AllIdle /\ logged # {}
    /\ logged' = {}
    /\ UNCHANGED <<prospects, today, thread, daemon, wcall, qrun, daily_limits, orun, vrun, arun, chain>>

\* The UNIQUE constraint on prospects.github_username: the INSERT of
\* insertProspect() throws when a row has the username.  The first
\* definition is the table without the constraint.
UniqueViolation_never(ps, u) == FALSE
UniqueViolation(ps, u) == \E i \in 1 .. Len(ps) : ps[i].githubUsername = u

RECURSIVE InsertAll(_, _, _)
\* The save loop of scan(): insertProspect for every result, in order; a
\* duplicate username makes the insert throw and the loop goes on.
InsertAll(ps, log, results) ==
    IF results = <<>> THEN [ps |-> ps, log |-> log]
    ELSE LET u == Head(results)
             dup == UniqueViolation(ps, u)
         IN  IF dup THEN InsertAll(ps, log, Tail(results))
             ELSE InsertAll(Append(ps, NewProspect(u, ReposOf(u))),
                            log \cup {logActivity("scan:prospect_added", NullInt)},
                            Tail(results))

\* The merged results of a scan: distinct usernames.  Accounts are numbered
\* in the order in which the searches return them.
ScanResults == {[i \in 1 .. n |-> i] : n \in 1 .. NumUsers}

Scan(results) ==
    /\ NoRunActive
    /\ LET r == InsertAll(prospects, {}, results)
       IN  /\ prospects' = r.ps
           /\ logged' = r.log
           /\ chain' = [i \in 1 .. Len(r.ps) |-> IF i \in DOMAIN chain THEN chain[i] ELSE <<>>]
    /\ UNCHANGED <<today, thread, daemon, wcall, qrun, daily_limits, orun, vrun, arun>>

\* ------------------------------------------------------------------------
\* Qualifier batch (qualifier.ts qualify): no suspension point, one step
\* ------------------------------------------------------------------------
tierOrder(t) == CASE t = "A" -> 0 [] t = "B" -> 1 [] t = "C" -> 2 [] OTHER -> 3

\* The prospects qualify() fetches.
QualifySelected(prospectId, pending) ==
    IF prospectId # NullInt THEN {i \in Ids : i = prospectId}
    ELSE IF pending THEN {i \in Ids : prospects[i].tier = NullTier}
    ELSE Ids

\* "Skip if already qualified and not forcing requalification", preceded by
\* a variant that never skips.
AlreadyQualified_never(p, prospectId) == FALSE
AlreadyQualified(p, prospectId) == p.tier # NullTier /\ prospectId = NullInt

\* The min-tier filter of qualify(): it does not look at prospectId.
BelowMinTier(tier, minTier, prospectId) ==
    minTier # NullTier /\ tierOrder(tier) > tierOrder(minTier)

\* The prospects qualify() persists a new score for.
QualifyScored(prospectId, pending, minTier) ==
    {i \in QualifySelected(prospectId, pending) :
        /\ ~AlreadyQualified(prospects[i], prospectId)
        /\ ~BelowMinTier(qualifyProspect(prospects[i].repos).tier, minTier, prospectId)}

Qualify(prospectId, pending, minTier) ==
    /\ NoRunActive
    /\ LET selected == QualifySelected(prospectId, pending)
           scored == QualifyScored(prospectId, pending, minTier)
       IN  /\ prospects' = [i \in Ids |->
                  IF i \in scored
                  THEN LET q == qualifyProspect(prospects[i].repos)
                       IN  updateProspectScore(prospects, i, q.score, q.tier)[i]
                  ELSE prospects[i]]
           /\ logged' = {logActivity("qualify:scored", i) : i \in scored}
           /\ qrun' = [pc |-> "done",
                       opts |-> [prospectId |-> prospectId, pending |-> pending,
                                 minTier |-> minTier],
                       qualified |-> Cardinality(scored),
                       skipped |-> Cardinality(selected \ scored)]
    /\ UNCHANGED <<today, thread, daemon, wcall, daily_limits, orun, vrun, arun, chain>>

QualifyReturn ==
    /\ qrun.pc = "done"
    /\ qrun' = IdleQ
    /\ UNCHANGED <<prospects, today, thread, daemon, wcall, daily_limits, orun, vrun, arun, chain>> /\ logged' = {}

\* ------------------------------------------------------------------------
\* Outreach (outreach.ts)
\* ------------------------------------------------------------------------
\* getProspects(filters): the rows matching the filters.  A filter that is
\* falsy (undefined, the empty string, or a limit of 0) is not applied;
\* SQLite treats a negative LIMIT as no limit.
MatchingRows(tier, outreachStatus, airdropStatus) ==
    {i \in Ids :
        /\ (tier # NullTier => prospects[i].tier = tier)
        /\ (outreachStatus # "" => prospects[i].outreachStatus = outreachStatus)
        /\ (airdropStatus # "" => prospects[i].airdropStatus = airdropStatus)}

ApplyLimit(rows, limit) ==
    IF limit = 0 \/ limit < 0 THEN rows ELSE SubSeq(rows, 1, Min(limit, Len(rows)))

Abs(x) == IF x < 0 THEN 0 - x ELSE x

\* The comparator of the sort in selectTargetRepo(): negative when a comes
\* before b.  Every matched repo carries the query that matched it, so the
\* first test (matchedQuery) never tells two repos apart.  lastUpdated is
\* taken in whole days: bDate - aDate is a.age - b.age days.  The first
\* definition is a variant that always lets the more recent repo win.
compareRepos_recencyFirst(a, b) ==
    IF a.age # b.age THEN a.age - b.age ELSE b.stars - a.stars

compareRepos(a, b) ==
    IF Abs(a.age - b.age) > 7 THEN a.age - b.age ELSE b.stars - a.stars

RECURSIVE InsertSorted(_, _, _)
\* Array.prototype.sort is stable: index i of repos goes into the sorted
\* indices before the first one it is strictly smaller than.
InsertSorted(repos, sorted, i) ==
    IF sorted = <<>> THEN <<i>>
    ELSE IF compareRepos(repos[i], repos[Head(sorted)]) < 0 THEN <<i>> \o sorted
    ELSE <<Head(sorted)>> \o InsertSorted(repos, Tail(sorted), i)

RECURSIVE SortedRepos(_, _)
\* The indices of the first n repos in sorted order.
SortedRepos(repos, n) ==
    IF n = 0 THEN <<>> ELSE InsertSorted(repos, SortedRepos(repos, n - 1), n)

\* selectTargetRepo(prospect): the index in prospect.repos of sorted[0],
\* null for a prospect without repos.
selectTargetRepo(p) ==
    IF Len(p.repos) = 0 THEN NullInt ELSE SortedRepos(p.repos, Len(p.repos))[1]

\* The mutating code-host calls of one delivery, in order.
DeliverySteps == <<"fork", "branch", "file", "pr">>
StepIndex(step) == CHOOSE i \in 1 .. Len(DeliverySteps) : DeliverySteps[i] = step

\* The dry-run return of sendOutreach(), preceded by a variant that never
\* takes it.
DryRunReturns_never(dryRun) == FALSE
DryRunReturns(dryRun) == dryRun

\* The OutreachRecord sendOutreach() returns for candidate c: the target
\* repo is set once a repo is selected, the error message on a failure.
NullText == "null"

OutreachRecord(c, status, errorMessage) ==
    [prospectId |-> c.id, status |-> status, targetRepo |-> selectTargetRepo(c.p),
     errorMessage |-> errorMessage]

\* The tallies of outreach() for a returned record.
OutreachTally(o, record) ==
    [o EXCEPT !.records = Append(@, record),
              !.sent = IF record.status = "delivered" THEN @ + 1 ELSE @,
              !.failed = IF record.status = "failed" THEN @ + 1 ELSE @]

\* The message of the error a code-host call throws: it names the call.
ErrorMessage(failAt) == failAt

\* The catch block of sendOutreach(), preceded by a variant that leaves the
\* record as it was created.
CaughtRecord_untouched(c, failAt) == OutreachRecord(c, "pending", NullText)

CaughtRecord(c, failAt) == OutreachRecord(c, "failed", ErrorMessage(failAt))

\* The "already contacted" test of the loop of outreach(), preceded by a
\* variant that never skips.
AlreadyContacted_never(p) == FALSE

AlreadyContacted(p) == p.outreachStatus # "pending"

RECURSIVE OutreachLoop(_)
\* The for-loop of outreach() from the head of the queue up to the next
\* suspension point: skips and repo-less failures need no external call; a
\* dry run has none at all.
OutreachLoop(o) ==
    IF o.queue = <<>> THEN [o EXCEPT !.pc = "done"]
    ELSE LET c == Head(o.queue)
             rest == Tail(o.queue)
         IN  IF AlreadyContacted(c.p)
             THEN OutreachLoop([o EXCEPT !.queue = rest, !.skipped = @ + 1])
             ELSE IF selectTargetRepo(c.p) = NullInt
             THEN OutreachLoop(OutreachTally([o EXCEPT !.queue = rest],
                    OutreachRecord(c, "failed", "No suitable repository found")))
             ELSE IF DryRunReturns(o.opts.dryRun)
             THEN OutreachLoop(OutreachTally([o EXCEPT !.queue = rest],
                    OutreachRecord(c, "pending", NullText)))
             ELSE [o EXCEPT !.pc = "deliver"]

\* The filter of outreach(): tier A, B or C (a null tier is falsy).  The
\* first definition is the faulty variant that forgets the null tier.
QualifiedTier_notD(p) == p.tier # "D"
QualifiedTier(p) == p.tier # NullTier /\ p.tier # "D"

\* The daily-limit gate of outreach(), preceded by its off-by-one variant.
PRCapReached_off(dryRun, remaining) == ~dryRun /\ remaining < 0
PRCapReached(dryRun, remaining) == ~dryRun /\ remaining <= 0

\* Effective per-run limit of outreach().
OutreachEffectiveLimit(dryRun, limit, remaining) ==
    IF dryRun THEN limit ELSE Min(limit, remaining)

\* The options of an outreach command.  With a prospect named, the tier and
\* the limit are not read (the limit is only printed), so one value of each
\* stands for all.
OutreachOpts ==
    {o \in [tier : {NullTier, "B"}, limit : {0, 2}, dryRun : BOOLEAN,
            prospectId : {NullInt} \cup Usernames] :
        o.prospectId # NullInt => (o.tier = NullTier /\ o.limit = 2)}

\* The options still read once the candidates are selected: the dry-run
\* flag; the limit, the mode and the prospect named are kept for the result.
OutreachLive(opts) ==
    [limit |-> opts.limit, dryRun |-> opts.dryRun, named |-> opts.prospectId # NullInt,
     prospectId |-> opts.prospectId]

NewOutreach(opts) == [IdleO EXCEPT !.pc = "select", !.opts = opts]

\* outreach() from the daily-limit check to the first delivery.
OutreachSelect(o, order) ==
    LET opts == o.opts
        remaining == config.maxDailyPRs - getDailyLimits(daily_limits).prsOpened
        effectiveLimit == OutreachEffectiveLimit(opts.dryRun, opts.limit, remaining)
        fetched == IF opts.prospectId # NullInt
                   THEN IF opts.prospectId \in Ids
                        THEN <<Snapshot(opts.prospectId)>> ELSE <<>>
                   ELSE ApplyLimit(Snapshots(order), effectiveLimit)
        keep == {i \in DOMAIN fetched : QualifiedTier(fetched[i].p)}
        live == [o EXCEPT !.opts = OutreachLive(opts)]
    IN  IF PRCapReached(opts.dryRun, remaining)
        THEN [live EXCEPT !.pc = "done"]
        ELSE OutreachLoop([live EXCEPT !.queue = FilterSeq(fetched, keep)])

\* outreach() up to the first delivery.  isAuth is the answer of checkAuth,
\* asked for unless the run is a dry run; outreach() throws when it is false.
OutreachStart(opts, isAuth) ==
    /\ NoRunActive
    /\ IF ~opts.dryRun /\ ~isAuth
       THEN /\ orun' = [IdleO EXCEPT !.pc = "done", !.threw = TRUE]
            /\ UNCHANGED daily_limits
       ELSE /\ \E order \in OrderedRows(MatchingRows(opts.tier, "pending", "")) :
                  orun' = OutreachSelect(NewOutreach(opts), order)
            /\ daily_limits' = EnsureToday(daily_limits)
    /\ UNCHANGED <<prospects, today, thread, daemon, wcall, qrun, vrun, arun, chain>> /\ logged' = {}

\* sendOutreach() past the dry-run return: the calls to the code host, then
\* the bookkeeping.  failAt names the first call that throws ("" if none);
\* getAuthenticatedUser ("user") comes before the mutating calls.
OutreachDeliver(failAt) ==
    /\ orun.pc = "deliver"
    /\ LET c == Head(orun.queue)
           made == IF failAt = "" THEN Len(DeliverySteps)
                   ELSE IF failAt = "user" THEN 0 ELSE StepIndex(failAt)
           base == [orun EXCEPT !.queue = Tail(@), !.calls = @ + made]
       IN  IF failAt = ""
           THEN /\ prospects' = updateProspectOutreach(prospects, c.id, "pr_opened",
                                                       100 + c.id, 100 + c.id)
                /\ daily_limits' = incrementDailyPRs(daily_limits)
                /\ logged' = {logActivity("outreach:pr_created", c.id)}
                /\ orun' = OutreachLoop(OutreachTally(base,
                      OutreachRecord(c, "delivered", NullText)))
           ELSE /\ logged' = {logActivity("outreach:failed", c.id)}
                /\ orun' = OutreachLoop(OutreachTally(base, CaughtRecord(c, failAt)))
                /\ UNCHANGED <<prospects, daily_limits>>
    /\ UNCHANGED <<today, thread, daemon, wcall, qrun, vrun, arun, chain>>

OutreachReturn ==
    /\ orun.pc = "done"
    /\ orun' = IdleO
    /\ UNCHANGED <<prospects, today, thread, daemon, wcall, qrun, daily_limits, vrun, arun, chain>> /\ logged' = {}

\* ------------------------------------------------------------------------
\* Verifier (verifier.ts)
\* ------------------------------------------------------------------------
\* A text is the sequence of the character codes of a string.  Repeat(c, n)
\* is the character c written n times.
Repeat(c, n) == [i \in 1 .. n |-> c]

\* The character class [0-9A-HJ-NP-Z] of the two patterns of
\* isValidStacksAddress: '0'..'9', 'A'..'H', 'J'..'N', 'P'..'Z'.
InCharClass(c) ==
    \/ c \in 48 .. 57
    \/ c \in 65 .. 72
    \/ c \in 74 .. 78
    \/ c \in 80 .. 90

\* /^<prefix>[0-9A-HJ-NP-Z]{38,39}$/.test(text)
PrefixRegexTest(prefix, text) ==
    /\ Len(text) >= Len(prefix)
    /\ SubSeq(text, 1, Len(prefix)) = prefix
    /\ Len(text) - Len(prefix) \in 38 .. 39
    /\ \A i \in Len(prefix) + 1 .. Len(text) : InCharClass(text[i])

\* isValidStacksAddress(address): mainnetRegex "SP", testnetRegex "ST".
\* The first definition is a variant that asks for the 41 characters of
\* the c32check format.
isValidStacksAddress_fullLength(address) ==
    /\ Len(address) = 41
    /\ \/ PrefixRegexTest(<<83, 80>>, address)
       \/ PrefixRegexTest(<<83, 84>>, address)

isValidStacksAddress(address) ==
    \/ PrefixRegexTest(<<83, 80>>, address)
    \/ PrefixRegexTest(<<83, 84>>, address)

\* The store keeps an address under a short name; AddressText is the string
\* a name stands for: "SP1" is SP followed by 39 times the digit 1, "ST2"
\* is ST followed by 38 times the digit 2, "bad" is the three letters b, a,
\* d.
AddressText(a) ==
    IF a = "SP1" THEN <<83, 80>> \o Repeat(49, 39)
    ELSE IF a = "ST2" THEN <<83, 84>> \o Repeat(50, 38)
    ELSE <<98, 97, 100>>

\* Addresses that pass isValidStacksAddress, and one that does not.
ValidAddresses == {"SP1"}
BadAddress == "bad"

\* A call of isValidStacksAddress on its own.
ValidateAddress ==
    /\ wcall.pc = "call"
    /\ wcall' = [wcall EXCEPT !.pc = "done",
                              !.result = isValidStacksAddress(wcall.address)]
    /\ UNCHANGED <<prospects, today, thread, daemon, daily_limits, logged, qrun, orun, vrun, arun, chain>>

\* A PR comment is abstracted to the login of its author and the words of
\* its body that can carry an address.  A login is an account name and its
\* spelling: as the account is registered, or in capitals.  The accounts
\* after the scanned ones have a name with the letters "bot" in it: a
\* person (as in "abbott") and an app ("dependabot[bot]").
Abbott == NumUsers + 1
Dependabot == NumUsers + 2

Login(name, caps) == [name |-> name, caps |-> caps]
Comment(login, words) == [login |-> login, words |-> words]

\* comment.user.login.includes("bot"): the test is case-sensitive.
IncludesBot(login) == login.name \in {Abbott, Dependabot} /\ ~login.caps

\* login.toLowerCase() !== prospect.githubUsername.toLowerCase()
OtherAuthor(login, username) == login.name # username

\* extractAddresses(text): the matches of STACKS_ADDRESS_REGEX in order,
\* without repetitions.  A word matches \b(SP|ST)[0-9A-HJ-NP-Z]{38,39}\b
\* when the whole word has that form.
extractAddresses(words) ==
    FilterSeq(words,
        {i \in DOMAIN words :
            /\ \/ PrefixRegexTest(<<83, 80>>, AddressText(words[i]))
               \/ PrefixRegexTest(<<83, 84>>, AddressText(words[i]))
            /\ \A j \in 1 .. i - 1 : words[j] # words[i]})

\* processComment(comment, prospect)
processComment(comment, p) ==
    LET none == [address |-> NullAddr, isValid |-> FALSE]
        addresses == extractAddresses(comment.words)
        valid == {i \in DOMAIN addresses : isValidStacksAddress(AddressText(addresses[i]))}
    IN  IF IncludesBot(comment.login) THEN none
        ELSE IF OtherAuthor(comment.login, p.githubUsername) THEN none
        ELSE IF addresses = <<>> THEN none
        ELSE IF valid # {}
        THEN [address |-> addresses[CHOOSE i \in valid : \A j \in valid : i <= j],
              isValid |-> TRUE]
        ELSE [address |-> addresses[1], isValid |-> FALSE]

\* The comment loop of verifyProspect(): the index of the first comment for
\* which processComment yields an address (0 if there is none), preceded
\* by a variant that goes on to the last such comment.
DecidingComment_last(comments, p) ==
    LET hits == {k \in DOMAIN comments : processComment(comments[k], p).address # NullAddr}
    IN  IF hits = {} THEN 0 ELSE CHOOSE k \in hits : \A j \in hits : k >= j

DecidingComment(comments, p) ==
    LET hits == {k \in DOMAIN comments : processComment(comments[k], p).address # NullAddr}
    IN  IF hits = {} THEN 0 ELSE CHOOSE k \in hits : \A j \in hits : k <= j

RECURSIVE VerifyLoop(_)
\* The for-loop of runCheck() up to the next comment fetch: a candidate
\* without a PR url is counted as pending without any call.
VerifyLoop(v) ==
    IF v.queue = <<>> THEN [v EXCEPT !.pc = "done"]
    ELSE IF Head(v.queue).p.prUrl = NullInt
         THEN VerifyLoop([v EXCEPT !.queue = Tail(@), !.pending = @ + 1])
         ELSE [v EXCEPT !.pc = "comments"]

\* verify() without poll: candidates are the pr_opened prospects that are
\* not verified yet, or those of the given PR.
VerifyStart(prUrl) ==
    /\ NoRunActive
    /\ vrun.pc = "idle"
    /\ \E order \in OrderedRows(MatchingRows(NullTier, "pr_opened", "")) :
          LET all == Snapshots(order)
              keep == IF prUrl # NullInt
                      THEN {i \in DOMAIN all : all[i].p.prUrl = prUrl}
                      ELSE {i \in DOMAIN all :
                              ~all[i].p.addressValid /\ all[i].p.prUrl # NullInt}
          IN  vrun' = VerifyLoop([IdleV EXCEPT !.pc = "comments",
                                               !.queue = FilterSeq(all, keep)])
    /\ UNCHANGED <<prospects, today, thread, daemon, wcall, qrun, daily_limits, orun, arun, chain>> /\ logged' = {}

\* verifyProspect() from the comment fetch on.  fetch is the answer of
\* getPRComments: the comments, or a throw (ok is false).  finding is what
\* the comment loop ends with: "none", "valid" or "invalid"; "error" is a
\* fetch that throws.  postOk is whether the reply can be posted (a throw
\* lands in the catch block).
VerifyCheck(fetch, postOk) ==
    /\ vrun.pc = "comments"
    /\ LET c == Head(vrun.queue)
           rest == [vrun EXCEPT !.queue = Tail(@)]
           k == DecidingComment(fetch.comments, c.p)
           found == processComment(fetch.comments[k], c.p)
           address == found.address
           finding == IF ~fetch.ok THEN "error"
                      ELSE IF k = 0 THEN "none"
                      ELSE IF found.isValid THEN "valid" ELSE "invalid"
       IN  CASE finding = "valid" ->
                  /\ prospects' = updateProspectVerification(prospects, c.id, address, TRUE)
                  /\ logged' = {logActivity(IF postOk THEN "verify:address_verified"
                                                 ELSE "verify:error", c.id)}
                  /\ vrun' = VerifyLoop([rest EXCEPT !.verified = @ + 1])
             [] finding = "invalid" ->
                  /\ logged' = {logActivity(IF postOk THEN "verify:address_invalid"
                                                 ELSE "verify:error", c.id)}
                  /\ vrun' = VerifyLoop([rest EXCEPT !.invalid = @ + 1])
                  /\ UNCHANGED prospects
             [] finding = "error" ->
                  /\ logged' = {logActivity("verify:error", c.id)}
                  /\ vrun' = VerifyLoop([rest EXCEPT !.pending = @ + 1])
                  /\ UNCHANGED prospects
             [] OTHER ->
                  /\ vrun' = VerifyLoop([rest EXCEPT !.pending = @ + 1])
                  /\ UNCHANGED <<prospects>> /\ logged' = {}
    /\ UNCHANGED <<today, thread, daemon, wcall, qrun, daily_limits, orun, arun, chain>>

VerifyReturn ==
    /\ vrun.pc = "done"
    /\ vrun' = IdleV
    /\ UNCHANGED <<prospects, today, thread, daemon, wcall, qrun, daily_limits, orun, arun, chain>> /\ logged' = {}

manualVerify(prospectId, address) ==
    /\ NoRunActive
    /\ IF prospectId \in Ids /\ isValidStacksAddress(AddressText(address))
       THEN /\ prospects' = updateProspectVerification(prospects, prospectId, address, TRUE)
            /\ logged' = {logActivity("verify:manual", prospectId)}
       ELSE UNCHANGED <<prospects>> /\ logged' = {}
    /\ UNCHANGED <<today, thread, daemon, wcall, qrun, daily_limits, orun, vrun, arun, chain>>

\* ------------------------------------------------------------------------
\* Distributor (airdrop.ts)
\* ------------------------------------------------------------------------
getAirdropAmount(tier) ==
    CASE tier = "A" -> AirdropTierA
      [] tier = "B" -> AirdropTierB
      [] tier = "C" -> AirdropTierC

\* "Determine amount" of airdrop(): the override, else the tier's amount,
\* else the tier-C amount.
DetermineAmount(overrideAmount, tier) ==
    LET a == IF overrideAmount = NullInt /\ tier # NullTier /\ tier # "D"
             THEN getAirdropAmount(tier) ELSE overrideAmount
    IN  IF a = NullInt THEN AirdropTierC ELSE a

\* The guards of airdrop().  Each is preceded by a variant with a plausible
\* fault (an off-by-one bound, a weakened test), against which the
\* properties below are tried.
DailyCapReached_off(remaining) == remaining < 0
DailyCapReached(remaining) == remaining <= 0

AirdropEffectiveLimit(limit, remaining) == Min(limit, remaining)

TreasuryTooLow_off(treasuryBalance) == treasuryBalance < MIN_TREASURY_BALANCE - 1
TreasuryTooLow(treasuryBalance) == treasuryBalance < MIN_TREASURY_BALANCE

NoValidAddress_addrOnly(p) == p.stacksAddress = NullAddr /\ p.addressValid
NoValidAddress(p) == p.stacksAddress = NullAddr \/ ~p.addressValid

AlreadyProcessed_sentOnly(p) == p.airdropStatus = "sent"
AlreadyProcessed(p) == p.airdropStatus # "pending"

InsufficientBalance(treasuryBalance, amount) ==
    treasuryBalance - amount < MIN_TREASURY_BALANCE

RECURSIVE AirdropLoop(_)
\* The for-loop of airdrop() from the head of the queue up to the next
\* broadcast: the per-candidate checks read the candidate as it was fetched.
AirdropLoop(a) ==
    IF a.queue = <<>> THEN [a EXCEPT !.pc = "done"]
    ELSE LET c == Head(a.queue)
             amount == DetermineAmount(a.opts.amount, c.p.tier)
             skip == [a EXCEPT !.queue = Tail(@), !.skipped = @ + 1]
         IN  IF NoValidAddress(c.p) THEN AirdropLoop(skip)
             ELSE IF AlreadyProcessed(c.p) THEN AirdropLoop(skip)
             ELSE IF InsufficientBalance(a.treasuryBalance, amount) THEN AirdropLoop(skip)
             ELSE [a EXCEPT !.pc = "broadcast", !.amount = amount]

\* The options cmdAirdrop builds: pending unless a prospect is named.
AirdropOpts ==
    {o \in [pending : BOOLEAN, limit : {-1, 1, 2}, prospectId : {NullInt} \cup Usernames,
            amount : {NullInt, 20000}] :
        /\ o.pending = (o.prospectId = NullInt)
        /\ (o.prospectId # NullInt => o.limit = 1)}

\* The options still read once the candidates are selected: the override
\* amount; the limit is kept for the result.
AirdropLive(opts) == [limit |-> opts.limit, amount |-> opts.amount]

\* The options runAirdrop of the daemon passes (airdropLimit is 5).
DaemonAirdropOpts ==
    {[pending |-> TRUE, limit |-> 5, prospectId |-> NullInt, amount |-> NullInt]}

\* Slot 1 is an airdrop command of the CLI, slot 2 a run of the daemon.
AirdropOptsOf(r) == IF r = 1 THEN AirdropOpts ELSE DaemonAirdropOpts

Balances == {99999, 105000, 200000}

NewAirdrop(opts) == [IdleA EXCEPT !.pc = "balance", !.opts = opts]

\* airdrop() up to the balance fetch: the daily-limit check.
StartedAirdrop(opts) ==
    LET remaining == config.maxDailyAirdrops
                       - getDailyLimits(daily_limits).airdropsSent
        a == NewAirdrop(opts)
    IN  IF DailyCapReached(remaining)
        THEN [a EXCEPT !.pc = "done", !.opts = AirdropLive(opts)]
        ELSE [a EXCEPT !.effectiveLimit =
                           AirdropEffectiveLimit(opts.limit, remaining)]

AirdropStart(r, opts) ==
    /\ qrun.pc = "idle" /\ orun.pc = "idle" /\ vrun.pc = "idle"
    /\ arun[r].pc = "idle"
    /\ (AllIdle => logged = {})
    /\ arun' = [arun EXCEPT ![r] = StartedAirdrop(opts)]
    /\ daily_limits' = EnsureToday(daily_limits)
    /\ UNCHANGED <<prospects, today, thread, daemon, wcall, qrun, orun, vrun, chain>> /\ logged' = {}

\* The balance fetch throws: airdrop() rejects.
AirdropBalanceFails(r) ==
    /\ arun[r].pc = "balance"
    /\ arun' = [arun EXCEPT ![r].pc = "done", ![r].threw = TRUE, ![r].calls = @ + 1,
                             ![r].opts = AirdropLive(@)]
    /\ UNCHANGED <<prospects, today, thread, daemon, wcall, qrun, daily_limits, orun, vrun, chain>> /\ logged' = {}

\* airdrop() from the balance to the first broadcast: the treasury check,
\* the candidate set and its cap.
AirdropBalance(r, balance) ==
    /\ arun[r].pc = "balance"
    /\ LET opts == arun[r].opts
           a == [arun[r] EXCEPT !.treasuryBalance = balance, !.calls = @ + 1,
                                !.opts = AirdropLive(opts)]
       IN  IF TreasuryTooLow(balance)
           THEN arun' = [arun EXCEPT ![r] = [a EXCEPT !.pc = "done"]]
           ELSE \E order \in OrderedRows(MatchingRows(NullTier, "", "pending")) :
                  LET all == Snapshots(order)
                      fetched ==
                        IF opts.prospectId # NullInt
                        THEN IF opts.prospectId \in Ids
                             THEN <<Snapshot(opts.prospectId)>> ELSE <<>>
                        ELSE IF opts.pending
                        THEN FilterSeq(all, {i \in DOMAIN all : ~NoValidAddress(all[i].p)})
                        ELSE <<>>
                  IN  arun' = [arun EXCEPT ![r] =
                        AirdropLoop([a EXCEPT !.queue = Slice0(fetched, a.effectiveLimit)])]
    /\ UNCHANGED <<prospects, today, thread, daemon, wcall, qrun, daily_limits, orun, vrun, chain>> /\ logged' = {}

\* The id the network gives a broadcast transaction (never 0).
Txid(r, id) == 100 * Len(chain[id]) + 10 * id + r

\* The tallies of airdrop() after processAirdrop returned tx, the counter
\* increment, and the loop up to the next broadcast.  The first definition
\* is a variant that forgets sent++ for a confirmed transfer.
AirdropTally_confirmedOnly(a, tx) ==
    LET b == [a EXCEPT !.queue = Tail(@), !.transactions = Append(@, tx)]
    IN  AirdropLoop(
          CASE tx.status = "confirmed" -> [b EXCEPT !.confirmed = @ + 1]
            [] tx.status = "sent" -> [b EXCEPT !.sent = @ + 1]
            [] OTHER -> [b EXCEPT !.failed = @ + 1])

AirdropTally(a, tx) ==
    LET b == [a EXCEPT !.queue = Tail(@), !.transactions = Append(@, tx)]
    IN  AirdropLoop(
          CASE tx.status = "confirmed" -> [b EXCEPT !.confirmed = @ + 1, !.sent = @ + 1]
            [] tx.status = "sent" -> [b EXCEPT !.sent = @ + 1]
            [] OTHER -> [b EXCEPT !.failed = @ + 1])

CommentCalls(p) == IF p.prUrl # NullInt THEN 1 ELSE 0

\* processAirdrop(): whether an error of postPRComment for the failure
\* comment leaves processAirdrop.  The call sits in a try with an empty
\* catch, so it never does.
CommentErrorEscalates_thrown(p, commentOk) == p.prUrl # NullInt /\ ~commentOk

CommentErrorEscalates(p, commentOk) == FALSE

\* processAirdrop(): the result of sendSbtc.  On an error the prospect is
\* marked failed and a comment is posted on its PR (errors swallowed).
AirdropBroadcast(r, ok) ==
    /\ arun[r].pc = "broadcast"
    /\ LET a == arun[r]
           c == Head(a.queue)
       IN  IF ok
           THEN /\ chain' = [chain EXCEPT ![c.id] = Append(@, r)]
                /\ prospects' = updateProspectAirdrop(prospects, c.id, "sent",
                                                      Txid(r, c.id), a.amount)
                /\ arun' = [arun EXCEPT ![r].pc = "confirm", ![r].calls = @ + 1,
                                         ![r].attempt = 0]
                /\ UNCHANGED <<daily_limits>> /\ logged' = {}
           ELSE /\ prospects' = updateProspectAirdrop(prospects, c.id, "failed",
                                                      NullInt, NullInt)
                /\ logged' = {logActivity("airdrop:failed", c.id)}
                /\ \E commentOk \in BOOLEAN :
                     arun' = [arun EXCEPT ![r] =
                       IF CommentErrorEscalates(c.p, commentOk)
                       THEN [a EXCEPT !.pc = "done", !.threw = TRUE,
                                      !.calls = @ + 1 + CommentCalls(c.p)]
                       ELSE AirdropTally([a EXCEPT !.calls = @ + 1 + CommentCalls(c.p)],
                                         [prospectId |-> c.id, amountSats |-> a.amount,
                                          txid |-> NullInt, status |-> "failed"])]
                /\ UNCHANGED <<chain, daily_limits>>
    /\ UNCHANGED <<today, thread, daemon, wcall, qrun, orun, vrun>>

\* processAirdrop(): the result of waitForConfirmation ("success", "abort"
\* or "timeout") after the given number of status polls, the comment on
\* success, then the tallies of airdrop().
WaitReturns(r, outcome, polls) ==
    /\ arun[r].pc = "confirm"
    /\ LET a == [arun[r] EXCEPT !.attempt = polls]
           c == Head(a.queue)
           tx == [prospectId |-> c.id, amountSats |-> a.amount, txid |-> Txid(r, c.id),
                  status |-> IF outcome = "success" THEN "confirmed" ELSE "sent"]
       IN  /\ IF outcome = "success"
              THEN /\ prospects' = updateProspectAirdrop(prospects, c.id, "confirmed",
                                                         NullInt, NullInt)
                   /\ logged' = {logActivity("airdrop:confirmed", c.id)}
                   /\ arun' = [arun EXCEPT ![r] =
                         AirdropTally([a EXCEPT !.calls = @ + 1 + CommentCalls(c.p)], tx)]
              ELSE /\ arun' = [arun EXCEPT ![r] =
                         AirdropTally([a EXCEPT !.calls = @ + 1], tx)]
                   /\ UNCHANGED <<prospects>> /\ logged' = {}
           /\ daily_limits' = incrementDailyAirdrops(daily_limits)
    /\ UNCHANGED <<today, thread, daemon, wcall, qrun, orun, vrun, chain>>

\* The wait for the confirmation as one step, whatever its polls were.
AirdropConfirm(r, outcome) == WaitReturns(r, outcome, arun[r].attempt)

\* waitForConfirmation(): the default of its maxAttempts parameter.
maxAttempts == 24

\* The loop test of waitForConfirmation() after the given number of polls,
\* preceded by a variant that allows one poll more.
PollsExhausted_off(polls) == polls > maxAttempts

PollsExhausted(polls) == polls >= maxAttempts

\* What one status poll gives: the tx_status of a good response ("pending"
\* for any other status), or "error" for a bad response or a throw.
PollReplies == {"success", "abort_by_response", "pending", "error"}

\* The abort test of waitForConfirmation(), preceded by a variant that
\* takes an aborted transaction for one that is still pending.
PollAborted_ignored(reply) == FALSE

PollAborted(reply) == reply = "abort_by_response"

\* One iteration of the loop of waitForConfirmation(): the poll and, when
\* the wait ends with it, the rest of processAirdrop() and the tallies.
AirdropPoll(r, reply) ==
    /\ arun[r].pc = "confirm"
    /\ LET polls == arun[r].attempt + 1
       IN  IF reply = "success" THEN WaitReturns(r, "success", polls)
           ELSE IF PollAborted(reply) THEN WaitReturns(r, "abort", polls)
           ELSE IF PollsExhausted(polls) THEN WaitReturns(r, "timeout", polls)
           ELSE /\ arun' = [arun EXCEPT ![r].attempt = polls]
                /\ logged' = {}
                /\ UNCHANGED <<prospects, today, thread, daemon, wcall, qrun,
                               daily_limits, orun, vrun, chain>>

AirdropReturn(r) ==
    /\ arun[r].pc = "done"
    /\ arun' = [arun EXCEPT ![r] = IdleA]
    /\ UNCHANGED <<prospects, today, thread, daemon, wcall, qrun, daily_limits, orun, vrun, chain>> /\ logged' = {}

\* The process of run r is killed while it is suspended at an await: what
\* the run held in memory is gone, the store keeps what was written.
Kill(r) ==
    /\ arun[r].pc \notin {"idle", "done"}
    /\ arun' = [arun EXCEPT ![r] = IdleA]
    /\ logged' = {}
    /\ UNCHANGED <<prospects, today, thread, daemon, daily_limits, qrun, orun, vrun, wcall, chain>>

\* The process is killed while sendSbtc waits for the answer of the node
\* that has accepted the transfer: the transfer is on the network and the
\* code after the await (the write of status sent) never runs.
KillAfterBroadcast(r) ==
    /\ arun[r].pc = "broadcast"
    /\ Len(chain[Head(arun[r].queue).id]) < MaxKills
    /\ chain' = [chain EXCEPT ![Head(arun[r].queue).id] = Append(@, r)]
    /\ arun' = [arun EXCEPT ![r] = IdleA]
    /\ logged' = {}
    /\ UNCHANGED <<prospects, today, thread, daemon, daily_limits, qrun, orun, vrun, wcall>>

\* ------------------------------------------------------------------------
\* Daemon (daemon.ts), started with --no-scan --no-qualify --no-verify
\* --no-sync: a pipeline run is runAirdrop().  A run occupies a slot of
\* AirdropRuns from its start to its end; it stands at "treasury" while it
\* waits for checkTreasury and at "airdrop" while it is inside airdrop().
\* ------------------------------------------------------------------------
NoPipelineRun == \A k \in AirdropRuns : daemon.runs[k] = "idle"

\* main(): "Run immediately", the first runPipeline() up to the balance
\* fetch of checkTreasury.  The timer is set when this run has ended.
DaemonMain ==
    /\ ~daemon.interval /\ NoPipelineRun
    /\ daemon' = [daemon EXCEPT !.runs[1] = "treasury"]
    /\ UNCHANGED <<prospects, today, thread, daily_limits, logged, qrun, orun, vrun, arun,
                   wcall, chain>>

\* The callback of setInterval: it calls runPipeline() whenever the timer
\* fires, and looks at nothing before it does.
IntervalFires(k) ==
    /\ daemon.interval
    /\ daemon.runs[k] = "idle"
    /\ daemon' = [daemon EXCEPT !.runs[k] = "treasury"]
    /\ UNCHANGED <<prospects, today, thread, daily_limits, logged, qrun, orun, vrun, arun,
                   wcall, chain>>

\* The end of a pipeline run; after the first one main() sets the timer.
EndedRun(k) == [interval |-> TRUE, runs |-> [daemon.runs EXCEPT ![k] = "idle"]]

\* runAirdrop() from the answer of checkTreasury: it returns when the
\* treasury cannot pay one tier-C airdrop above the reserve, and calls
\* airdrop() otherwise.
PipelineTreasury(k, balance) ==
    /\ daemon.runs[k] = "treasury"
    /\ IF balance >= MIN_TREASURY_BALANCE + config.airdropTierC
       THEN /\ daemon' = [daemon EXCEPT !.runs[k] = "airdrop"]
            /\ arun' = [arun EXCEPT ![k] =
                  StartedAirdrop([pending |-> TRUE, limit |-> 5,
                                  prospectId |-> NullInt, amount |-> NullInt])]
            /\ daily_limits' = EnsureToday(daily_limits)
       ELSE /\ daemon' = EndedRun(k)
            /\ UNCHANGED <<arun, daily_limits>>
    /\ logged' = {}
    /\ UNCHANGED <<prospects, today, thread, qrun, orun, vrun, wcall, chain>>

\* airdrop() has returned or thrown: runAirdrop() and runPipeline() return.
PipelineEnd(k) ==
    /\ daemon.runs[k] = "airdrop" /\ arun[k].pc = "done"
    /\ arun' = [arun EXCEPT ![k] = IdleA]
    /\ daemon' = EndedRun(k)
    /\ logged' = {}
    /\ UNCHANGED <<prospects, today, thread, daily_limits, qrun, orun, vrun, wcall, chain>>

\* ------------------------------------------------------------------------
\* Specifications
\* ------------------------------------------------------------------------
\* What getPRComments answers in the runs of the pipeline: a throw, no
\* comment, or one comment of a scanned account that gives its address.
Fetches ==
    {[ok |-> FALSE, comments |-> <<>>], [ok |-> TRUE, comments |-> <<>>]}
    \cup {[ok |-> TRUE, comments |-> <<Comment(Login(u, FALSE), <<"SP1">>)>>] :
             u \in Usernames}

\* Inputs that cannot make a difference are not enumerated twice: the
\* pending flag of qualify() is not read when a prospect is named; a dry run
\* of outreach() does not ask checkAuth, and a real run that checkAuth turns
\* down throws before it reads an option.
\* A delivery fails at its first call (before anything is created on the
\* code host), at its last call (after the fork, the branch and the file
\* exist), or not at all; all failures end in the same catch block.
FailPoints == {"", "user", DeliverySteps[Len(DeliverySteps)]}

UnauthenticatedOpts ==
    [tier |-> NullTier, limit |-> 2, dryRun |-> FALSE, prospectId |-> NullInt]

QualifyInputs ==
    {q \in [prospectId : {NullInt} \cup Usernames, pending : BOOLEAN,
            minTier : {NullTier, "B"}] : q.prospectId # NullInt => ~q.pending}

ScanStage == \E results \in ScanResults : Scan(results)

QualifyStage ==
    \/ \E q \in QualifyInputs : Qualify(q.prospectId, q.pending, q.minTier)
    \/ QualifyReturn

ManualVerifyCommand ==
    \E id \in Usernames, address \in ValidAddresses \cup {BadAddress} :
        manualVerify(id, address)

OutreachStage ==
    \/ \E opts \in OutreachOpts : OutreachStart(opts, TRUE)
    \/ OutreachStart(UnauthenticatedOpts, FALSE)
    \/ \E failAt \in FailPoints : OutreachDeliver(failAt)
    \/ OutreachReturn

VerifyStage ==
    \/ \E prUrl \in {NullInt} \cup {100 + u : u \in Usernames} : VerifyStart(prUrl)
    \/ \E fetch \in Fetches, postOk \in BOOLEAN : VerifyCheck(fetch, postOk)
    \/ VerifyReturn

Distributor(r) ==
    \/ \E opts \in AirdropOptsOf(r) : AirdropStart(r, opts)
    \/ AirdropBalanceFails(r)
    \/ \E balance \in Balances : AirdropBalance(r, balance)
    \/ \E ok \in BOOLEAN : AirdropBroadcast(r, ok)
    \/ \E outcome \in {"success", "abort", "timeout"} : AirdropConfirm(r, outcome)
    \/ AirdropReturn(r)

\* One instance: stages run one after the other in one process.
Next ==
    \/ CommandExit
    \/ ScanStage
    \/ QualifyStage
    \/ OutreachStage
    \/ VerifyStage
    \/ ManualVerifyCommand
    \/ Distributor(1)

Spec == Init /\ [][Next]_vars

\* Two Distributor runs against the same store: an airdrop command while
\* the daemon is in its airdrop stage.  The store is filled by scans,
\* qualification and manual verification.
NextConcurrent ==
    \/ CommandExit
    \/ ScanStage
    \/ QualifyStage
    \/ ManualVerifyCommand
    \/ \E r \in AirdropRuns : Distributor(r)

SpecConcurrent == Init /\ [][NextConcurrent]_vars

\* The daily ledger over several dates.  The store holds the accounts of
\* one scan, qualified and verified by hand on the first date; outreach and
\* airdrop commands are then run with the CLI defaults while the date moves
\* on, between commands or in the middle of one.
LedgerProspects ==
    LET ps0 == InsertAll(<<>>, {}, [i \in 1 .. NumUsers |-> i]).ps
    IN  [i \in 1 .. NumUsers |->
            LET q == qualifyProspect(ps0[i].repos)
                ps1 == updateProspectScore(ps0, i, q.score, q.tier)
            IN  updateProspectVerification(ps1, i, "SP1", TRUE)[i]]

InitLedger ==
    /\ today = 1
    /\ prospects = LedgerProspects
    /\ daily_limits = <<>>
    /\ logged = {}
    /\ qrun = IdleQ
    /\ orun = IdleO
    /\ vrun = IdleV
    /\ arun = [r \in AirdropRuns |-> IdleA]
    /\ wcall = IdleW
    /\ daemon = IdleD
    /\ thread = <<>>
    /\ chain = [i \in 1 .. NumUsers |-> <<>>]

\* getTodayDate() returns the next calendar date from now on.
NextDay ==
    /\ today < MaxDays
    /\ today' = today + 1
    /\ UNCHANGED <<prospects, daily_limits, logged, qrun, orun, vrun, arun, wcall, daemon, thread,
                   chain>>

LedgerOutreachOpts ==
    [tier |-> NullTier, limit |-> 2, dryRun |-> FALSE, prospectId |-> NullInt]

LedgerAirdropOpts ==
    [pending |-> TRUE, limit |-> 2, prospectId |-> NullInt, amount |-> NullInt]

NextLedger ==
    \/ NextDay
    \/ OutreachStart(LedgerOutreachOpts, TRUE)
    \/ \E failAt \in {"", "user"} : OutreachDeliver(failAt)
    \/ OutreachReturn
    \/ AirdropStart(1, LedgerAirdropOpts)
    \/ AirdropBalance(1, 200000)
    \/ \E ok \in BOOLEAN : AirdropBroadcast(1, ok)
    \/ \E outcome \in {"success", "timeout"} : AirdropConfirm(1, outcome)
    \/ AirdropReturn(1)

SpecLedger == InitLedger /\ [][NextLedger]_vars

\* The address check on its own.  The texts it is tried on are a two-letter
\* prefix followed by one character written several times and at most one
\* other character at the end; the characters are the ends of the ranges of
\* the character class, the three capitals between the ranges (I, O) or
\* inside one (L), a lowercase letter and a hyphen.
Prefixes == {<<83, 80>>, <<83, 84>>, <<83, 77>>, <<115, 112>>}
SampleChars == {48, 57, 65, 72, 73, 76, 79, 90, 97, 45}

AddressTexts ==
    {pre \o Repeat(c1, n1) \o Repeat(c2, n2) :
        pre \in Prefixes, c1 \in SampleChars, c2 \in SampleChars,
        n1 \in MaxBody - 3 .. MaxBody - 1, n2 \in 0 .. 1}

InitWallet ==
    /\ today = 1
    /\ prospects = <<>>
    /\ daily_limits = <<>>
    /\ logged = {}
    /\ qrun = IdleQ
    /\ orun = IdleO
    /\ vrun = IdleV
    /\ arun = [r \in AirdropRuns |-> IdleA]
    /\ chain = <<>>
    /\ daemon = IdleD
    /\ thread = <<>>
    /\ wcall \in {[pc |-> "call", address |-> t, result |-> FALSE] : t \in AddressTexts}

SpecWallet == InitWallet /\ [][ValidateAddress]_vars

\* The target-repo selection on its own: one qualified prospect with two
\* matched repos of 10 or 50 stars, last updated up to MaxGap days ago, and
\* an outreach command that names it.
SelectorRepos ==
    {Repo(TRUE, 0, FALSE, stars, age) : stars \in {10, 50}, age \in 0 .. MaxGap}

SelectorProspect(repos) ==
    LET p == NewProspect(1, repos)
        q == qualifyProspect(repos)
    IN  updateProspectScore(<<p>>, 1, q.score, q.tier)[1]

InitSelector ==
    /\ today = 1
    /\ prospects \in {<<SelectorProspect(<<a, b>>)>> : a \in SelectorRepos, b \in SelectorRepos}
    /\ daily_limits = <<>>
    /\ logged = {}
    /\ qrun = IdleQ
    /\ orun = IdleO
    /\ vrun = IdleV
    /\ arun = [r \in AirdropRuns |-> IdleA]
    /\ wcall = IdleW
    /\ daemon = IdleD
    /\ thread = <<>>
    /\ chain = << <<>> >>

NextSelector ==
    \/ \E dryRun \in BOOLEAN :
          OutreachStart([tier |-> NullTier, limit |-> 2, dryRun |-> dryRun,
                         prospectId |-> 1], TRUE)
    \/ OutreachDeliver("")
    \/ OutreachReturn

SpecSelector == InitSelector /\ [][NextSelector]_vars

\* The same runs for a prospect with three matched repos.
RankingRepos ==
    {Repo(TRUE, 0, FALSE, stars, age) : stars \in {10, 20, 30}, age \in {0, 5, 10}}

InitRanking ==
    /\ today = 1
    /\ prospects \in {<<SelectorProspect(<<a, b, c>>)>> :
                         a \in RankingRepos, b \in RankingRepos, c \in RankingRepos}
    /\ daily_limits = <<>>
    /\ logged = {}
    /\ qrun = IdleQ
    /\ orun = IdleO
    /\ vrun = IdleV
    /\ arun = [r \in AirdropRuns |-> IdleA]
    /\ wcall = IdleW
    /\ daemon = IdleD
    /\ thread = <<>>
    /\ chain = << <<>> >>

SpecRanking == InitRanking /\ [][NextSelector]_vars

\* The Distributor on its own against a store of verified prospects, the
\* confirmation wait taken poll by poll.  Every call a run awaits returns
\* (the polls and the delays are timers and fetches with a timeout).
RunStep(r) ==
    \/ AirdropBalance(r, 200000)
    \/ \E ok \in BOOLEAN : AirdropBroadcast(r, ok)
    \/ \E reply \in PollReplies : AirdropPoll(r, reply)

\* A batch command, or a command that names the first prospect.
PollingAirdropOpts ==
    {LedgerAirdropOpts,
     [pending |-> FALSE, limit |-> 1, prospectId |-> 1, amount |-> NullInt]}

NextPolling ==
    \/ NextDay
    \/ \E opts \in PollingAirdropOpts : AirdropStart(1, opts)
    \/ RunStep(1)
    \/ AirdropReturn(1)

SpecPolling == InitLedger /\ [][NextPolling]_vars /\ WF_vars(RunStep(1))

\* The amount of a transfer on its own: an airdrop command with or without
\* --amount against one verified prospect of each tier.  The text of the
\* argument is a sequence of decimal digits (empty when the flag is absent
\* or empty).
RECURSIVE parseInt(_)
parseInt(digits) ==
    IF digits = <<>> THEN 0
    ELSE 10 * parseInt(SubSeq(digits, 1, Len(digits) - 1)) + digits[Len(digits)]

AmountArgs == {<<>>, <<0>>, <<7>>, <<2, 0, 0, 0, 0>>}

\* cmdAirdrop(): the options built from the arguments.  amountArg keeps the
\* argument as it was typed; airdrop() does not read it.
cmdAirdropOpts(amountArg) ==
    [pending |-> TRUE, limit |-> 5, prospectId |-> NullInt,
     amount |-> IF amountArg # <<>> THEN parseInt(amountArg) ELSE NullInt,
     amountArg |-> amountArg]

AmountProspect(tier) ==
    LET ps == updateProspectScore(<<NewProspect(1, <<>>)>>, 1, 0, tier)
    IN  updateProspectVerification(ps, 1, "SP1", TRUE)[1]

InitAmount ==
    /\ today = 1
    /\ prospects \in {<<AmountProspect(tier)>> : tier \in {"A", "B", "C", "D", NullTier}}
    /\ daily_limits = <<>>
    /\ logged = {}
    /\ qrun = IdleQ
    /\ orun = IdleO
    /\ vrun = IdleV
    /\ arun = [r \in AirdropRuns |-> IdleA]
    /\ wcall = IdleW
    /\ daemon = IdleD
    /\ thread = <<>>
    /\ chain = << <<>> >>

\* The options of every airdrop command tried.
AmountOpts == {cmdAirdropOpts(amountArg) : amountArg \in AmountArgs}

NextAmount ==
    \/ \E opts \in AmountOpts : AirdropStart(1, opts)
    \/ AirdropBalance(1, 200000)
    \/ \E ok \in BOOLEAN : AirdropBroadcast(1, ok)
    \/ \E outcome \in {"success", "timeout"} : AirdropConfirm(1, outcome)
    \/ AirdropReturn(1)

SpecAmount == InitAmount /\ [][NextAmount]_vars

\* Outreach on its own against a store of qualified prospects, with a
\* failure tried at every call of a delivery.
ThrowingCalls == {"user"} \cup {DeliverySteps[i] : i \in DOMAIN DeliverySteps}

\* Every account has repos that qualify (the hits of the odd accounts).
DeliveryProspects ==
    [i \in 1 .. NumUsers |->
        LET repos == ReposOf(2 * i - 1)
            q == qualifyProspect(repos)
        IN  updateProspectScore(<<NewProspect(i, repos)>>, 1, q.score, q.tier)[1]]

InitDelivery ==
    /\ today = 1
    /\ prospects = DeliveryProspects
    /\ daily_limits = <<>>
    /\ logged = {}
    /\ qrun = IdleQ
    /\ orun = IdleO
    /\ vrun = IdleV
    /\ arun = [r \in AirdropRuns |-> IdleA]
    /\ wcall = IdleW
    /\ daemon = IdleD
    /\ thread = <<>>
    /\ chain = [i \in 1 .. NumUsers |-> <<>>]

NextDelivery ==
    \/ NextDay
    \/ \E opts \in OutreachOpts : OutreachStart(opts, TRUE)
    \/ \E failAt \in {""} \cup ThrowingCalls : OutreachDeliver(failAt)
    \/ OutreachReturn

SpecDelivery == InitDelivery /\ [][NextDelivery]_vars

\* The daemon on its own, against a store of qualified and verified
\* prospects.
NextDaemon ==
    \/ DaemonMain
    \/ \E k \in AirdropRuns : IntervalFires(k)
    \/ \E k \in AirdropRuns, balance \in Balances : PipelineTreasury(k, balance)
    \/ \E k \in AirdropRuns : AirdropBalanceFails(k)
    \/ \E k \in AirdropRuns, balance \in Balances : AirdropBalance(k, balance)
    \/ \E k \in AirdropRuns, ok \in BOOLEAN : AirdropBroadcast(k, ok)
    \/ \E k \in AirdropRuns, outcome \in {"success", "timeout"} : AirdropConfirm(k, outcome)
    \/ \E k \in AirdropRuns : PipelineEnd(k)

SpecDaemon == InitLedger /\ [][NextDaemon]_vars

\* Airdrop commands run one after the other against a store of qualified
\* and verified prospects, where the process of a command can be killed.
NextCrash ==
    \/ AirdropStart(1, LedgerAirdropOpts)
    \/ \E balance \in Balances : AirdropBalance(1, balance)
    \/ \E ok \in BOOLEAN : AirdropBroadcast(1, ok)
    \/ \E outcome \in {"success", "timeout"} : AirdropConfirm(1, outcome)
    \/ AirdropReturn(1)
    \/ Kill(1)
    \/ KillAfterBroadcast(1)

SpecCrash == InitLedger /\ [][NextCrash]_vars

\* The Verifier on its own: one prospect with an open PR, a scanned account
\* or an account with "bot" in its name, and the comments on that PR.  The
\* authors are the prospect (as registered or in capitals), another
\* account and an app; a body has no address, a malformed one, one
\* address, or several words of which the last ones are addresses.
VerifierNames == {1, Abbott}

VerifierProspect(name) ==
    LET repos == ReposOf(1)
        q == qualifyProspect(repos)
        ps1 == updateProspectScore(<<NewProspect(name, repos)>>, 1, q.score, q.tier)
    IN  updateProspectOutreach(ps1, 1, "pr_opened", 101, 101)

VerifierLogins ==
    {Login(name, caps) : name \in VerifierNames, caps \in BOOLEAN}
    \cup {Login(2, FALSE), Login(Dependabot, FALSE)}

VerifierComments ==
    {Comment(login, words) :
        login \in VerifierLogins,
        words \in {<<>>, <<"bad">>, <<"SP1">>, <<"ST2">>, <<"bad", "ST2", "SP1">>}}

Threads == UNION {[1 .. n -> VerifierComments] : n \in 0 .. MaxComments}

InitVerifier ==
    /\ today = 1
    /\ prospects \in {VerifierProspect(name) : name \in VerifierNames}
    /\ daily_limits = <<>>
    /\ logged = {}
    /\ qrun = IdleQ
    /\ orun = IdleO
    /\ vrun = IdleV
    /\ arun = [r \in AirdropRuns |-> IdleA]
    /\ wcall = IdleW
    /\ daemon = IdleD
    /\ thread \in Threads
    /\ chain = << <<>> >>

NextVerifier ==
    \/ VerifyStart(NullInt)
    \/ \E ok \in BOOLEAN, postOk \in BOOLEAN :
          VerifyCheck([ok |-> ok, comments |-> thread], postOk)
    \/ VerifyReturn

SpecVerifier == InitVerifier /\ [][NextVerifier]_vars

\* The Qualifier on its own: one prospect with any evidence list made of
\* the repos below (the empty list included), scored by qualify().  The
\* repos are picked so that every value of every score component and the
\* scores on either side of each tier cut occur.
EvidenceRepos ==
    { Repo(TRUE, 25, TRUE, 500, 1),      \* 90
      Repo(TRUE, 25, FALSE, 0, 5),       \* 70
      Repo(TRUE, 25, FALSE, 40, 60),     \* 69
      Repo(TRUE, 0, FALSE, 0, 60),       \* 40
      Repo(TRUE, 0, FALSE, 90, 400),     \* 39
      Repo(FALSE, 15, FALSE, 0, 100),    \* 20
      Repo(FALSE, 15, FALSE, 40, 400),   \* 19
      Repo(FALSE, 10, TRUE, 7, 150),     \* 20
      Repo(FALSE, 0, FALSE, 0, 1000) }   \*  0

EvidenceLists ==
    UNION {[1 .. n -> EvidenceRepos] : n \in 0 .. MaxEvidence}

InitQualifier ==
    /\ today = 1
    /\ prospects \in {<<NewProspect(1, repos)>> : repos \in EvidenceLists}
    /\ daily_limits = <<>>
    /\ logged = {}
    /\ qrun = IdleQ
    /\ orun = IdleO
    /\ vrun = IdleV
    /\ arun = [r \in AirdropRuns |-> IdleA]
    /\ wcall = IdleW
    /\ daemon = IdleD
    /\ thread = <<>>
    /\ chain = << <<>> >>

SpecQualifier == InitQualifier /\ [][QualifyStage]_vars

\* ------------------------------------------------------------------------
\* Properties
\* ------------------------------------------------------------------------
Settled == {"sent", "confirmed", "failed"}

\* The candidate a run is at (the head of its queue), if any.
AtCandidate(a, pcs) == a.pc \in pcs /\ a.queue # <<>>

\* The amounts a run has transferred so far: its transactions that were
\* broadcast.
Transferred(a) ==
    SumSeq([k \in DOMAIN a.transactions |->
              IF a.transactions[k].status \in {"sent", "confirmed"}
              THEN a.transactions[k].amountSats ELSE 0])

SentToday(dl) == IF today \in DOMAIN dl THEN dl[today].airdropsSent ELSE 0
OpenedToday(dl) == IF today \in DOMAIN dl THEN dl[today].prsOpened ELSE 0

\* C1: with one instance, a prospect whose payout-status is sent, confirmed
\* or failed is skipped by every later airdrop() run: no transfer is sent or
\* broadcast for it, its txid and amount never change, and its status stays
\* as it is (sent becomes confirmed only in the run that broadcast it, while
\* that run waits for its confirmation).
C1_SettledNeverPaidAgain ==
    [][/\ \A i \in Ids : prospects[i].airdropStatus \in Settled =>
            /\ prospects'[i].airdropTxid = prospects[i].airdropTxid
            /\ prospects'[i].airdropAmountSats = prospects[i].airdropAmountSats
            /\ chain'[i] = chain[i]
            /\ \/ prospects'[i].airdropStatus = prospects[i].airdropStatus
               \/ /\ prospects[i].airdropStatus = "sent"
                  /\ prospects'[i].airdropStatus = "confirmed"
                  /\ AtCandidate(arun[1], {"confirm"})
                  /\ Head(arun[1].queue).id = i
       /\ AtCandidate(arun'[1], {"broadcast"}) =>
            prospects'[Head(arun'[1].queue).id].airdropStatus = "pending"]_vars

\* C1 witness: a run in which the only thing that could make it skip a
\* candidate is a settled payout-status has skipped one.
C1_Witness ==
    /\ arun[1].pc = "done" /\ arun[1].skipped = 1 /\ arun[1].transactions = <<>>
    /\ arun[1].treasuryBalance = 200000
    /\ Ids # {}
    /\ \A i \in Ids : prospects[i].addressValid /\ prospects[i].airdropStatus \in Settled

\* C2: when two airdrop() runs overlap, no prospect has a transfer
\* broadcast by both of them.
C2_NoDoubleBroadcast ==
    \A i \in Ids : Cardinality({chain[i][k] : k \in DOMAIN chain[i]}) <= 1

\* C3: a transfer of amount a is sent for broadcast only if the balance
\* fetched at the start of the batch, minus what the batch has already
\* transferred, minus a, stays at or above the minimum reserve.
C3_BatchKeepsReserve ==
    AtCandidate(arun[1], {"broadcast"}) =>
        arun[1].treasuryBalance - Transferred(arun[1]) - arun[1].amount >= 100000

\* C4: with one instance, a finished airdrop() run has processed at most
\* min(requested limit, maxDailyAirdrops - airdrops sent today at its start)
\* candidates, and today's counter does not exceed maxDailyAirdrops.
C4_BatchWithinEffectiveLimit ==
    (arun[1].pc = "done" /\ ~arun[1].threw) =>
        LET a == arun[1]
            remainingAtStart == MaxDailyAirdrops - (SentToday(daily_limits) - a.sent)
            allowed == IF a.opts.limit <= remainingAtStart
                       THEN a.opts.limit ELSE remainingAtStart
        IN  /\ a.sent + a.failed + a.skipped <= (IF allowed < 0 THEN 0 ELSE allowed)
            /\ SentToday(daily_limits) <= MaxDailyAirdrops

\* C5: an airdrop() that starts when today's airdrops_sent has reached
\* maxDailyAirdrops returns all-zero tallies and no transactions in its
\* first step, before any external call, and changes no prospect, no
\* counter and nothing on the network.
C5_CapReachedNoEffect ==
    [][(/\ arun[1].pc = "idle" /\ arun'[1].pc # "idle"
        /\ SentToday(daily_limits) >= MaxDailyAirdrops) =>
          /\ arun'[1].pc = "done" /\ ~arun'[1].threw
          /\ arun'[1].calls = 0
          /\ arun'[1].sent = 0 /\ arun'[1].confirmed = 0
          /\ arun'[1].failed = 0 /\ arun'[1].skipped = 0
          /\ arun'[1].transactions = <<>>
          /\ prospects' = prospects /\ chain' = chain
          /\ SentToday(daily_limits') = SentToday(daily_limits)
          /\ OpenedToday(daily_limits') = OpenedToday(daily_limits)]_vars

\* C5 witness: a batch run returned without a call, with the cap reached by
\* the payouts of earlier runs.
C5_Witness ==
    /\ arun[1].pc = "done" /\ arun[1].calls = 0 /\ ~arun[1].threw
    /\ SentToday(daily_limits) >= MaxDailyAirdrops
    /\ \A i \in Ids : prospects[i].airdropStatus \in {"sent", "confirmed"}

\* C6: when the balance fetched at the start of airdrop() is below the
\* minimum reserve, the run ends there: all tallies zero, no transaction, no
\* broadcast, no prospect and no counter changed.
C6_LowTreasuryAborts ==
    [][(/\ arun[1].pc = "balance" /\ arun'[1].pc # "balance" /\ ~arun'[1].threw
        /\ arun'[1].treasuryBalance < 100000) =>
          /\ arun'[1].pc = "done"
          /\ arun'[1].sent = 0 /\ arun'[1].confirmed = 0
          /\ arun'[1].failed = 0 /\ arun'[1].skipped = 0
          /\ arun'[1].transactions = <<>>
          /\ prospects' = prospects /\ chain' = chain
          /\ daily_limits' = daily_limits]_vars

\* C6 witness: a run aborted on a low balance although a verified prospect
\* is waiting for its payout and the daily cap is not reached.
C6_Witness ==
    /\ arun[1].pc = "done" /\ ~arun[1].threw /\ arun[1].calls = 1
    /\ arun[1].treasuryBalance < 100000
    /\ SentToday(daily_limits) < MaxDailyAirdrops
    /\ \E i \in Ids : prospects[i].addressValid /\ prospects[i].airdropStatus = "pending"

\* C7: a payout-status is sent or confirmed only on a prospect whose
\* address-valid flag is true and whose address is non-null, and no step
\* resets an address-valid flag to false.
C7_PaidOnlyIfVerified ==
    [][\A i \in Ids :
          /\ prospects[i].addressValid => prospects'[i].addressValid
          /\ prospects'[i].airdropStatus \in {"sent", "confirmed"} =>
                /\ prospects'[i].addressValid
                /\ prospects'[i].stacksAddress # "null"
          /\ Len(chain'[i]) > Len(chain[i]) =>
                prospects[i].addressValid /\ prospects[i].stacksAddress # "null"]_vars

\* C7 witness: one prospect was paid, and a run skipped a named prospect
\* that has no verified address.
C7_Witness ==
    /\ arun[1].pc = "done" /\ arun[1].skipped = 1 /\ arun[1].transactions = <<>>
    /\ \E i, j \in Ids :
          /\ prospects[i].airdropStatus = "sent" /\ prospects[i].addressValid
          /\ ~prospects[j].addressValid /\ prospects[j].airdropStatus = "pending"

\* C8: a payout amount that is non-null never changes.
C8_AmountImmutable ==
    [][\A i \in Ids : prospects[i].airdropAmountSats # 0 =>
          prospects'[i].airdropAmountSats = prospects[i].airdropAmountSats]_vars

\* C9: every candidate outreach() keeps for delivery, every prospect it
\* makes a record for and every prospect it moves to pr_opened has tier A, B
\* or C when the run selects it (the tier does not change during the run).
C9_OutreachOnlyTierABC ==
    [][/\ \A k \in DOMAIN orun'.queue : orun'.queue[k].p.tier \in {"A", "B", "C"}
       /\ \A k \in DOMAIN orun'.records :
             prospects'[orun'.records[k].prospectId].tier \in {"A", "B", "C"}
       /\ \A i \in Ids :
             (prospects[i].outreachStatus # "pr_opened"
                /\ prospects'[i].outreachStatus = "pr_opened") =>
                   prospects[i].tier \in {"A", "B", "C"}]_vars

\* C9 witness: a run naming a prospect finished without any attempt while
\* the store holds an unscored prospect and a tier-D prospect only.
C9_Witness ==
    /\ orun.pc = "done" /\ ~orun.threw /\ orun.opts.named
    /\ orun.records = <<>> /\ orun.skipped = 0
    /\ Len(prospects) = 2
    /\ prospects[1].tier = "null" /\ prospects[2].tier = "D"
    /\ OpenedToday(daily_limits) < MaxDailyPRs

\* C10: a finished non-dry-run outreach() in batch mode has opened at most
\* min(requested limit, maxDailyPRs - PRs opened today at its start) pull
\* requests, and today's counter does not exceed maxDailyPRs.
C10_OutreachWithinEffectiveLimit ==
    (orun.pc = "done" /\ ~orun.threw /\ ~orun.opts.dryRun /\ ~orun.opts.named) =>
        LET remainingAtStart == MaxDailyPRs - (OpenedToday(daily_limits) - orun.sent)
            allowed == IF orun.opts.limit <= remainingAtStart
                       THEN orun.opts.limit ELSE remainingAtStart
        IN  /\ orun.sent <= (IF allowed < 0 THEN 0 ELSE allowed)
            /\ OpenedToday(daily_limits) <= MaxDailyPRs

\* C11: a non-dry-run outreach() that starts when today's prs_opened has
\* reached maxDailyPRs ends in its first step: no fork, branch, file or PR
\* call, no prospect changed, the PR counter unchanged, and a result of
\* sent = 0, failed = 0, skipped = 0 with no records.
C11_PRCapReachedAborts ==
    [][(/\ orun.pc = "idle" /\ orun'.pc # "idle"
        /\ ~orun'.threw /\ ~orun'.opts.dryRun
        /\ OpenedToday(daily_limits) >= MaxDailyPRs) =>
          /\ orun'.pc = "done"
          /\ orun'.calls = 0 /\ orun'.queue = <<>>
          /\ orun'.sent = 0 /\ orun'.failed = 0 /\ orun'.skipped = 0
          /\ orun'.records = <<>>
          /\ prospects' = prospects
          /\ OpenedToday(daily_limits') = OpenedToday(daily_limits)
          /\ SentToday(daily_limits') = SentToday(daily_limits)]_vars

\* C11 witness: a real run naming a prospect returned an empty result
\* while the cap is reached and the PR that reached it is still open.
C11_Witness ==
    /\ orun.pc = "done" /\ ~orun.threw /\ ~orun.opts.dryRun /\ orun.opts.named
    /\ orun.records = <<>> /\ orun.skipped = 0 /\ orun.calls = 0
    /\ OpenedToday(daily_limits) >= MaxDailyPRs
    /\ \A i \in Ids : prospects[i].outreachStatus = "pr_opened"
    /\ Ids # {}

\* C12: no step of a dry-run outreach() makes a fork, branch, file or PR
\* call, changes a prospect or increments the PR counter; and the daily cap
\* does not stop it: a dry run naming an existing prospect of tier A, B or C
\* handles that prospect (a record, or a skip if it was contacted before)
\* whatever today's PR count is.
C12_DryRunNoEffect ==
    [][(orun'.pc # "idle" /\ orun'.opts.dryRun) =>
          /\ orun'.pc = "done" /\ orun'.calls = 0 /\ orun'.sent = 0
          /\ prospects' = prospects /\ chain' = chain
          /\ OpenedToday(daily_limits') = OpenedToday(daily_limits)
          /\ SentToday(daily_limits') = SentToday(daily_limits)
          /\ \A k \in DOMAIN orun'.records : orun'.records[k].status # "delivered"
          /\ (/\ orun.pc = "idle"
              /\ orun'.opts.prospectId \in Ids
              /\ prospects[orun'.opts.prospectId].tier \in {"A", "B", "C"}) =>
                 orun'.skipped + Len(orun'.records) = 1]_vars

\* C12 witness: a dry run made a record for a candidate without any call,
\* and no PR has been opened.
C12_Witness ==
    /\ orun.pc = "done" /\ orun.opts.dryRun /\ orun.calls = 0
    /\ orun.records # <<>>
    /\ \A k \in DOMAIN orun.records : orun.records[k].status = "pending"
    /\ \A i \in Ids : prospects[i].outreachStatus = "pending"
    /\ OpenedToday(daily_limits) = 0

\* A step in which qualify() ran without a prospectId.
BatchQualifyStep ==
    qrun.pc = "idle" /\ qrun'.pc = "done" /\ qrun'.opts.prospectId = NullInt

\* The prospects that have a tier.
Tiered == {i \in Ids : prospects[i].tier # NullTier}

\* C13 (as stated): qualify() without a prospectId, in pending mode or in
\* all-prospects mode, leaves the score and tier of every prospect that has
\* a tier unchanged and counts each of them as skipped.
C13_BatchQualifySkipsScored ==
    [][BatchQualifyStep =>
          /\ \A i \in Tiered : /\ prospects'[i].score = prospects[i].score
                                /\ prospects'[i].tier = prospects[i].tier
          /\ qrun'.skipped >= Cardinality(Tiered)]_vars

\* C13 (amended): qualify() without a prospectId leaves the score and tier
\* of every prospect that has a tier unchanged; all-prospects mode counts
\* each of them as skipped, pending mode does not fetch them, so its counts
\* cover the prospects without a tier only; and a second run with the same
\* options right after the first would score nothing.
C13_BatchQualifyIdempotent ==
    [][/\ BatchQualifyStep =>
            /\ \A i \in Tiered : /\ prospects'[i].score = prospects[i].score
                                  /\ prospects'[i].tier = prospects[i].tier
            /\ ~qrun'.opts.pending => qrun'.skipped >= Cardinality(Tiered)
            /\ ~qrun'.opts.pending => qrun'.qualified + qrun'.skipped = Cardinality(Ids)
            /\ qrun'.opts.pending =>
                  qrun'.qualified + qrun'.skipped = Cardinality(Ids \ Tiered)
       /\ (qrun.pc = "done" /\ qrun.opts.prospectId = NullInt) =>
            QualifyScored(NullInt, qrun.opts.pending, qrun.opts.minTier) = {}]_vars

\* C13 witness: an all-prospects run scored one prospect and skipped one
\* that had a tier already.
C13_Witness ==
    /\ qrun.pc = "done" /\ qrun.opts.prospectId = NullInt /\ ~qrun.opts.pending
    /\ qrun.opts.minTier = NullTier
    /\ qrun.qualified = 1 /\ qrun.skipped = 1
    /\ \A i \in Ids : prospects[i].tier # NullTier

\* C14: qualify() naming an existing prospect stores the recomputed score
\* and tier for it and counts it as qualified, whatever its tier was and
\* whatever minTier is given.
C14_NamedQualifyOverwrites ==
    [][(qrun.pc = "idle" /\ qrun'.pc = "done" /\ qrun'.opts.prospectId \in Ids) =>
          LET id == qrun'.opts.prospectId
              q == qualifyProspect(prospects[id].repos)
          IN  /\ prospects'[id].score = q.score
              /\ prospects'[id].tier = q.tier
              /\ qrun'.qualified = 1]_vars

C17_ReadmeTierCuts ==
    \A i \in Ids : prospects[i].tier # NullTier =>
        LET score == prospects[i].score
            tier == prospects[i].tier
        IN  /\ (tier = "A") = (score >= 80)
            /\ (tier = "B") = (40 <= score /\ score <= 79)
            /\ (tier = "C") = (20 <= score /\ score <= 39)
            /\ (tier = "D") = (score < 20)

\* C18: the counters of a date start at 0 and never decrease, and no row
\* is removed; a step that opens a PR raises prs_opened of today's row by
\* exactly 1 and a step that records a payout raises airdrops_sent of
\* today's row by exactly 1; each leaves the other counter and the rows of
\* all other dates as they are, and no other step changes a counter.
C18_LedgerPerDate ==
    [][LET opened == orun'.sent # orun.sent /\ orun'.pc # "idle"
           paid == arun'[1].sent # arun[1].sent /\ arun'[1].pc # "idle"
           Row(dl, d) == IF d \in DOMAIN dl THEN dl[d] ELSE ZeroRow
       IN  /\ DOMAIN daily_limits \subseteq DOMAIN daily_limits'
           /\ \A d \in DOMAIN daily_limits' :
                 /\ d # today => Row(daily_limits', d) = Row(daily_limits, d)
                 /\ Row(daily_limits', d).prsOpened =
                       Row(daily_limits, d).prsOpened
                         + (IF d = today /\ opened THEN 1 ELSE 0)
                 /\ Row(daily_limits', d).airdropsSent =
                       Row(daily_limits, d).airdropsSent
                         + (IF d = today /\ paid THEN 1 ELSE 0)]_vars

\* C18 witness: payouts were recorded on two dates, one on each, and a PR
\* on the first.
C18_Witness ==
    /\ today = 2 /\ DOMAIN daily_limits = {1, 2}
    /\ daily_limits[1].airdropsSent = 1 /\ daily_limits[1].prsOpened = 1
    /\ daily_limits[2].airdropsSent = 1 /\ daily_limits[2].prsOpened = 0

\* The lifecycle transitions a stage makes on a prospect record.
LifecycleTransition(old, new) ==
    \/ old.tier = NullTier /\ new.tier # NullTier
    \/ old.outreachStatus = "pending" /\ new.outreachStatus = "pr_opened"
    \/ ~old.addressValid /\ new.addressValid
    \/ old.airdropStatus = "pending" /\ new.airdropStatus \in {"sent", "failed"}
    \/ old.airdropStatus = "sent" /\ new.airdropStatus = "confirmed"

\* C19: a step that makes a lifecycle transition on a prospect (tier
\* assigned, outreach pending to pr_opened, address becoming valid, payout
\* pending to sent or failed, sent to confirmed) appends an activity-log
\* row for that prospect in the same step.
C19_TransitionsLogged ==
    [][\A i \in DOMAIN prospects :
          LifecycleTransition(prospects[i], prospects'[i])
              => \E l \in logged' : l.prospectId = i]_vars

\* C20: isValidStacksAddress returns true exactly for the texts made of SP
\* or ST followed by 39 characters of the allowed alphabet; every text with
\* another prefix, another length, or a lowercase letter, O, I or L in it
\* is rejected.
C20_AddressValidation ==
    wcall.pc = "done" =>
        (wcall.result <=>
            /\ Len(wcall.address) = 2 + 39
            /\ SubSeq(wcall.address, 1, 2) \in {<<83, 80>>, <<83, 84>>}
            /\ \A i \in 3 .. Len(wcall.address) :
                  LET c == wcall.address[i]
                  IN  /\ c \in 48 .. 57 \/ c \in 65 .. 90   \* digit or capital
                      /\ c \notin {79, 73, 76})              \* not O, I, L

\* C21: for a prospect with two matched repos, the repo outreach targets is
\* the one with more stars when the two were last updated at most 7 days
\* apart (the more recent one does not win), and the more recently updated
\* one when they were updated more than 7 days apart, whatever the stars.
C21_TargetRepoSelection ==
    \A k \in DOMAIN orun.records :
        LET repos == prospects[orun.records[k].prospectId].repos
            t == orun.records[k].targetRepo
        IN  (Len(repos) = 2 /\ t # NullInt) =>
               LET chosen == repos[t]
                   other == repos[3 - t]
               IN  /\ Abs(chosen.age - other.age) <= 7 => chosen.stars >= other.stars
                   /\ Abs(chosen.age - other.age) > 7 => chosen.age < other.age

\* C21 witness: the 50-star repo was targeted although the 10-star repo was
\* updated 2 days later; in another run the window would not matter.
C21_Witness ==
    /\ orun.records # <<>>
    /\ LET repos == prospects[1].repos
           t == orun.records[1].targetRepo
       IN  /\ Len(repos) = 2 /\ t # NullInt
           /\ repos[t].stars = 50 /\ repos[3 - t].stars = 10
           /\ repos[t].age = repos[3 - t].age + 2

\* C22: no two prospects share a username, and a scan leaves every record
\* that was in the store before it (the records of the usernames it meets
\* again included) as it was: evidence, score, tier, outreach, verification
\* and payout fields; it only adds rows.
C22_UsernameUnique ==
    [][/\ \A i, j \in DOMAIN prospects' :
             i # j => prospects'[i].githubUsername # prospects'[j].githubUsername
       /\ \A results \in ScanResults :
             Scan(results) =>
                /\ Len(prospects') >= Len(prospects)
                /\ \A i \in Ids : prospects'[i] = prospects[i]]_vars

\* C22 witness: a scan has just added the second account after the first
\* one, which it met again, had been qualified and verified.
C22_Witness ==
    /\ Len(prospects) = 2
    /\ \E l \in logged : l.action = "scan:prospect_added"
    /\ prospects[1].tier # NullTier /\ prospects[1].addressValid
    /\ prospects[2].tier = NullTier

\* C23: within one daemon process at most one pipeline run is in progress
\* at any time: no run starts while another one has not ended.
C23_PipelineRunsSequential ==
    Cardinality({k \in AirdropRuns : daemon.runs[k] # "idle"}) <= 1

\* C24: in an airdrop() batch a step raises today's airdrops_sent by exactly
\* 1 when it adds a transaction with outcome sent or confirmed, and leaves
\* it alone when the candidate failed or candidates were skipped; the
\* tallies satisfy confirmed <= sent and sent + failed = number of
\* transactions returned.
C24_CounterFollowsOutcomes ==
    [][LET a == arun[1]
           b == arun'[1]
           paid == /\ b.pc # "idle"
                   /\ Len(b.transactions) = Len(a.transactions) + 1
                   /\ b.transactions[Len(b.transactions)].status \in {"sent", "confirmed"}
       IN  /\ SentToday(daily_limits') =
                 SentToday(daily_limits) + (IF paid THEN 1 ELSE 0)
           /\ b.pc # "idle" => Len(b.transactions) \in {Len(a.transactions),
                                                       Len(a.transactions) + 1}
           /\ b.confirmed <= b.sent
           /\ b.sent + b.failed = Len(b.transactions)]_vars

\* C24 witness: a finished batch with one failed and one confirmed
\* transfer and a counter of 1.
C24_Witness ==
    /\ arun[1].pc = "done"
    /\ arun[1].failed = 1 /\ arun[1].sent = 1 /\ arun[1].confirmed = 1
    /\ SentToday(daily_limits) = 1

\* C25: over a killed airdrop() run and all the runs after it, at most one
\* transfer is broadcast for each prospect.
C25_KilledRunRetryIdempotent ==
    \A i \in Ids : Len(chain[i]) <= 1

\* A step of the Verifier that has fetched the comments of the PR of the
\* prospect and has gone through them: a throwing fetch is the step that
\* counts the prospect as pending and logs an error.
CheckedComments ==
    /\ vrun.pc = "comments" /\ vrun'.pc = "done"
    /\ ~(vrun'.pending = 1 /\ \E l \in logged' : l.action = "verify:error")

\* C26: when a prospect with status pr_opened and no valid address has
\* written a comment on its PR that holds a valid address, a verify run
\* that fetches the comments marks the address valid and stores a valid
\* address, whatever the username of the prospect.
C26_AuthoredAddressVerifies ==
    [][(/\ CheckedComments
        /\ prospects[1].outreachStatus = "pr_opened" /\ ~prospects[1].addressValid
        /\ \E k \in DOMAIN thread :
              /\ thread[k].login.name = prospects[1].githubUsername
              /\ \E w \in DOMAIN thread[k].words :
                    isValidStacksAddress(AddressText(thread[k].words[w])))
       => /\ prospects'[1].addressValid
          /\ prospects'[1].stacksAddress # NullAddr
          /\ isValidStacksAddress(AddressText(prospects'[1].stacksAddress))]_vars

\* C27: the check is decided by the first comment, in the order returned,
\* whose author is the prospect (whatever the letter case) and not bot-like
\* and which holds an address-shaped token: the first token of that comment
\* that passes validation is stored as the verified address, or else the
\* finding is invalid; later comments play no part.  Without such a
\* comment nothing changes.
C27_FirstCommentFirstToken ==
    [][CheckedComments =>
         LET p == prospects[1]
             quals == {k \in DOMAIN thread :
                         /\ thread[k].login.name = p.githubUsername
                         /\ ~IncludesBot(thread[k].login)
                         /\ extractAddresses(thread[k].words) # <<>>}
         IN  IF quals = {}
             THEN prospects' = prospects /\ vrun'.pending = 1
             ELSE LET k == CHOOSE q \in quals : \A j \in quals : q <= j
                      tokens == extractAddresses(thread[k].words)
                      valid == {i \in DOMAIN tokens :
                                  isValidStacksAddress(AddressText(tokens[i]))}
                  IN  IF valid = {}
                      THEN vrun'.invalid = 1 /\ ~prospects'[1].addressValid
                      ELSE /\ vrun'.verified = 1
                           /\ prospects'[1].addressValid
                           /\ prospects'[1].stacksAddress =
                                 tokens[CHOOSE i \in valid : \A j \in valid : i <= j]]_vars

\* C27 witness: the prospect wrote two comments with addresses; the check
\* ended with the first address of the first one, which differs from the
\* first address of the second.
C27_Witness ==
    /\ vrun.pc = "done" /\ vrun.verified = 1
    /\ Len(thread) = 2
    /\ thread[1] = Comment(Login(1, TRUE), <<"bad", "ST2", "SP1">>)
    /\ thread[2] = Comment(Login(1, FALSE), <<"SP1">>)
    /\ prospects[1].githubUsername = 1
    /\ prospects[1].stacksAddress = "ST2" /\ prospects[1].addressValid

\* C28: when the first comment of the prospect that holds address-shaped
\* tokens holds none that is a valid address (SP or ST followed by 39
\* characters of the alphabet), the check stores the first token on the
\* prospect with address-valid false, logs verify:address_invalid unless
\* the reply failed, and the prospect stays unverified.
C28_InvalidAddressPersisted ==
    [][CheckedComments =>
         LET p == prospects[1]
             quals == {k \in DOMAIN thread :
                         /\ thread[k].login.name = p.githubUsername
                         /\ ~IncludesBot(thread[k].login)
                         /\ extractAddresses(thread[k].words) # <<>>}
             k == CHOOSE q \in quals : \A j \in quals : q <= j
             tokens == extractAddresses(thread[k].words)
             FullyValid(t) ==
                 /\ Len(t) = 2 + 39
                 /\ SubSeq(t, 1, 2) \in {<<83, 80>>, <<83, 84>>}
                 /\ \A i \in 3 .. Len(t) :
                       (t[i] \in 48 .. 57 \/ t[i] \in 65 .. 90) /\ t[i] \notin {79, 73, 76}
         IN  (quals # {} /\ \A i \in DOMAIN tokens : ~FullyValid(AddressText(tokens[i])))
             => /\ prospects'[1].stacksAddress = tokens[1]
                /\ ~prospects'[1].addressValid
                /\ \E l \in logged' :
                      l.action \in {"verify:address_invalid", "verify:error"}]_vars

\* C29: when the check finds a valid address and the confirmation reply
\* cannot be posted, the prospect still has the address stored with
\* address-valid true, the verify:address_verified entry is logged, and no
\* verify:error entry is logged for the prospect.
C29_ReplyFailureKeepsOutcome ==
    [][(/\ VerifyCheck([ok |-> TRUE, comments |-> thread], FALSE)
        /\ vrun'.verified = vrun.verified + 1)
         => LET id == Head(vrun.queue).id
            IN  /\ prospects'[id].addressValid
                /\ prospects'[id].stacksAddress \in ValidAddresses \cup {"ST2"}
                /\ logActivity("verify:address_verified", id) \in logged'
                /\ logActivity("verify:error", id) \notin logged']_vars

\* C30: when the broadcast for a candidate fails, the prospect's airdrop
\* status becomes failed with no txid and no amount stored, an
\* airdrop:failed entry is logged, the daily counter is not incremented,
\* and the run neither throws nor stops: the result gets one failed
\* transaction and the loop goes on with the rest of the candidates,
\* whether or not the failure comment on the PR could be posted.
C30_BroadcastFailureContained ==
    [][\A r \in AirdropRuns :
         (arun[r].pc = "broadcast" /\ AirdropBroadcast(r, FALSE)) =>
           LET a == arun[r]
               b == arun'[r]
               c == Head(a.queue)
           IN  /\ prospects'[c.id].airdropStatus = "failed"
               /\ prospects'[c.id].airdropTxid = NullInt
               /\ prospects'[c.id].airdropAmountSats = NullInt
               /\ logActivity("airdrop:failed", c.id) \in logged'
               /\ daily_limits' = daily_limits
               /\ ~b.threw
               /\ b.failed = a.failed + 1 /\ b.sent = a.sent
               /\ Len(b.transactions) = Len(a.transactions) + 1
               /\ b.transactions[Len(b.transactions)].status = "failed"
               /\ b.transactions[Len(b.transactions)].txid = NullInt
               /\ \/ b.pc = "done" /\ b.queue = <<>>
                  \/ /\ b.pc = "broadcast"
                     /\ \E k \in 2 .. Len(a.queue) :
                           b.queue = SubSeq(a.queue, k, Len(a.queue))]_vars

\* A run whose first broadcast failed for a prospect with a PR and which
\* then went on to transfer to the next candidate.
C30_Witness ==
    /\ arun[1].pc = "done" /\ ~arun[1].threw
    /\ Len(arun[1].transactions) = 2
    /\ arun[1].transactions[1].status = "failed"
    /\ prospects[arun[1].transactions[1].prospectId].prUrl # NullInt
    /\ prospects[arun[1].transactions[1].prospectId].airdropStatus = "failed"
    /\ arun[1].transactions[2].status \in {"sent", "confirmed"}

\* C31: when the fork, the branch, the file or the PR creation of a
\* delivery throws, the candidate's record is failed with the message of
\* the error, the store is not written (outreach status pending, no PR
\* fields), the daily PR counter keeps its value, outreach:failed is
\* logged for the prospect, and the run goes on with the rest of its
\* candidates.
C31_DeliveryFailureContained ==
    [][\A i \in DOMAIN DeliverySteps :
         (orun.pc = "deliver" /\ OutreachDeliver(DeliverySteps[i])) =>
           LET c == Head(orun.queue)
               n == Len(orun'.records)
           IN  /\ n = Len(orun.records) + 1
               /\ orun'.records[n].prospectId = c.id
               /\ orun'.records[n].status = "failed"
               /\ orun'.records[n].errorMessage = ErrorMessage(DeliverySteps[i])
               /\ prospects'[c.id].outreachStatus = "pending"
               /\ prospects'[c.id].prUrl = NullInt
               /\ prospects'[c.id].prNumber = NullInt
               /\ daily_limits' = daily_limits
               /\ logActivity("outreach:failed", c.id) \in logged'
               /\ orun'.failed = orun.failed + 1 /\ orun'.sent = orun.sent
               /\ ~orun'.threw
               /\ \/ orun'.pc = "done" /\ orun'.queue = <<>>
                  \/ /\ orun'.pc = "deliver"
                     /\ \E k \in 2 .. Len(orun.queue) :
                           orun'.queue = SubSeq(orun.queue, k, Len(orun.queue))]_vars

\* A run whose first delivery failed at the fork and which then opened the
\* PR of its next candidate.
C31_Witness ==
    /\ orun.pc = "done" /\ ~orun.threw
    /\ Len(orun.records) = 2
    /\ orun.records[1].status = "failed"
    /\ orun.records[1].errorMessage = ErrorMessage("fork")
    /\ prospects[orun.records[1].prospectId].outreachStatus = "pending"
    /\ prospects[orun.records[1].prospectId].prUrl = NullInt
    /\ orun.records[2].status = "delivered"

\* C32: every airdrop() run ends.  A confirmation wait makes at most 24
\* status polls and ends with the first poll that answers success or abort.
\* When the 24th poll brings no confirmation the prospect stays sent
\* (neither failed nor confirmed), the transfer is counted as sent, and the
\* loop goes on with the rest of the candidates.
C32_BoundedConfirmationWait ==
    /\ [](arun[1].attempt <= maxAttempts)
    /\ [][\A reply \in PollReplies :
            (arun[1].pc = "confirm" /\ AirdropPoll(1, reply)) =>
              LET a == arun[1]
                  b == arun'[1]
                  c == Head(a.queue)
                  ended == Len(b.transactions) = Len(a.transactions) + 1
              IN  /\ a.attempt < maxAttempts
                  /\ reply \in {"success", "abort_by_response"} => ended
                  /\ (reply \in {"pending", "error"} /\ a.attempt + 1 < maxAttempts)
                       => (b.pc = "confirm" /\ b.queue = a.queue /\ ~ended)
                  /\ (reply \in {"pending", "error"} /\ a.attempt + 1 = maxAttempts)
                       => /\ ended
                          /\ prospects'[c.id].airdropStatus = "sent"
                          /\ b.transactions[Len(b.transactions)].status = "sent"
                          /\ b.sent = a.sent + 1
                          /\ b.confirmed = a.confirmed /\ b.failed = a.failed
                          /\ ~b.threw
                          /\ \/ b.pc = "done" /\ b.queue = <<>>
                             \/ /\ b.pc = "broadcast"
                                /\ \E k \in 2 .. Len(a.queue) :
                                      b.queue = SubSeq(a.queue, k, Len(a.queue))]_vars
    /\ (arun[1].pc \in {"balance", "broadcast", "confirm"}) ~> (arun[1].pc = "done")

\* A run that is about to broadcast to its second candidate after the wait
\* for the first one ran out of polls.
C32_Witness ==
    /\ arun[1].pc = "broadcast"
    /\ arun[1].attempt = maxAttempts
    /\ Len(arun[1].transactions) = 1
    /\ arun[1].transactions[1].status = "sent"
    /\ prospects[arun[1].transactions[1].prospectId].airdropStatus = "sent"
    /\ arun[1].sent = 1 /\ arun[1].confirmed = 0

\* C33: the amount airdrop() transfers to a candidate is the amount of the
\* --amount argument when the argument is given; without it, the
\* configured amount of the prospect's tier for the tiers A, B and C, and
\* the tier-C amount for tier D and for a prospect without a tier.
C33_AmountOverrideElseTier ==
    [][(arun[1].pc = "balance" /\ arun'[1].pc = "broadcast") =>
         LET amountArg == arun[1].opts.amountArg
             tier == Head(arun'[1].queue).p.tier
         IN  arun'[1].amount =
               IF amountArg # <<>> THEN parseInt(amountArg)
               ELSE CASE tier = "A" -> AirdropTierA
                      [] tier = "B" -> AirdropTierB
                      [] OTHER -> AirdropTierC]_vars

\* C34: a step changes a prospect's airdrop status only from pending to
\* sent, from pending to failed or from sent to confirmed, and from sent to
\* confirmed only in the run that broadcast the transfer, while it waits
\* for that transfer's confirmation: a later run leaves a sent prospect as
\* it is.
C34_PayoutStatusTransitions ==
    [][\A i \in DOMAIN prospects :
         LET old == prospects[i].airdropStatus
             new == prospects'[i].airdropStatus
         IN  old # new =>
               /\ <<old, new>> \in {<<"pending", "sent">>, <<"pending", "failed">>,
                                    <<"sent", "confirmed">>}
               /\ arun[1].pc \in {"broadcast", "confirm"}
               /\ Head(arun[1].queue).id = i
               /\ new = "confirmed" =>
                     /\ arun[1].pc = "confirm"
                     /\ prospects[i].airdropTxid = Txid(1, i) - 100]_vars

\* A later run named the one prospect of the store, left as sent by the
\* run before, and skipped it.
C34_Witness ==
    /\ Len(prospects) = 1
    /\ prospects[1].airdropStatus = "sent"
    /\ arun[1].pc = "done" /\ ~arun[1].threw
    /\ arun[1].skipped = 1 /\ arun[1].transactions = <<>>

\* C35: at most one PR is opened per prospect.  A step changes a
\* prospect's outreach status or PR fields only as the delivery of an
\* outreach run to that prospect, from pending without a PR to pr_opened;
\* and a run makes an attempt (a record) only for a prospect whose status
\* is pending, whether it works through a batch or a named prospect.
C35_OnePullRequestPerProspect ==
    [][/\ \A i \in DOMAIN prospects :
            (\/ prospects'[i].outreachStatus # prospects[i].outreachStatus
             \/ prospects'[i].prUrl # prospects[i].prUrl
             \/ prospects'[i].prNumber # prospects[i].prNumber) =>
               /\ prospects[i].outreachStatus = "pending"
               /\ prospects[i].prUrl = NullInt
               /\ prospects'[i].outreachStatus = "pr_opened"
               /\ orun.pc = "deliver" /\ Head(orun.queue).id = i
               /\ orun'.sent = orun.sent + 1
       /\ \A k \in Len(orun.records) + 1 .. Len(orun'.records) :
            prospects[orun'.records[k].prospectId].outreachStatus = "pending"
       /\ orun'.sent > orun.sent =>
            /\ orun'.sent = orun.sent + 1
            /\ prospects[Head(orun.queue).id].outreachStatus = "pending"
            /\ prospects'[Head(orun.queue).id].outreachStatus = "pr_opened"]_vars

\* A run that named a prospect whose PR is open skipped it.
C35_Witness ==
    /\ orun.pc = "done" /\ ~orun.threw /\ orun.opts.named
    /\ orun.opts.prospectId \in Ids
    /\ prospects[orun.opts.prospectId].outreachStatus = "pr_opened"
    /\ orun.skipped = 1 /\ orun.records = <<>> /\ orun.calls = 0

C37_RankingTransitive ==
    \A k \in DOMAIN orun.records :
        LET p == prospects[orun.records[k].prospectId]
            repos == p.repos
            chosen == repos[orun.records[k].targetRepo]
        IN  /\ \A a, b, c \in DOMAIN repos :
                  (compareRepos(repos[a], repos[b]) < 0
                     /\ compareRepos(repos[b], repos[c]) < 0)
                        => compareRepos(repos[a], repos[c]) < 0
            /\ \A perm \in Permutations(DOMAIN repos) :
                  (\A a, b \in DOMAIN repos :
                       a # b => compareRepos(repos[a], repos[b]) # 0) =>
                  LET stored == [i \in DOMAIN repos |-> repos[perm[i]]]
                  IN  stored[selectTargetRepo([p EXCEPT !.repos = stored])] = chosen

\* C38: a poll that reports the transaction as aborted ends the wait with
\* that poll.  The prospect stays sent, the transfer is tallied as sent and
\* counted in today's airdrops_sent, and the run goes on without that
\* prospect.  No step of this or a later run broadcasts again to a prospect
\* that is sent or changes its status to anything but confirmed, which
\* only the wait of the run that broadcast does.
C38_AbortedTransferStaysSent ==
    [][/\ (arun[1].pc = "confirm" /\ AirdropPoll(1, "abort_by_response")) =>
            LET a == arun[1]
                b == arun'[1]
                c == Head(a.queue)
            IN  /\ Len(b.transactions) = Len(a.transactions) + 1
                /\ b.transactions[Len(b.transactions)].status = "sent"
                /\ b.transactions[Len(b.transactions)].prospectId = c.id
                /\ b.attempt = a.attempt + 1
                /\ prospects'[c.id].airdropStatus = "sent"
                /\ b.sent = a.sent + 1
                /\ b.confirmed = a.confirmed /\ b.failed = a.failed
                /\ SentToday(daily_limits') = SentToday(daily_limits) + 1
                /\ \A k \in DOMAIN b.queue : b.queue[k].id # c.id
       /\ \A i \in DOMAIN prospects :
            prospects[i].airdropStatus = "sent" =>
              /\ Len(chain'[i]) = Len(chain[i])
              /\ prospects'[i].airdropStatus \in {"sent", "confirmed"}
              /\ prospects'[i].airdropStatus = "confirmed" =>
                    (arun[1].pc = "confirm" /\ Head(arun[1].queue).id = i)]_vars

\* A run ended after the first poll for its second transfer reported an
\* abort: both transfers count for today and the prospect is sent.
C38_Witness ==
    /\ arun[1].pc = "done" /\ ~arun[1].threw
    /\ arun[1].attempt = 1
    /\ Len(arun[1].transactions) = 2
    /\ arun[1].transactions[2].status = "sent"
    /\ prospects[arun[1].transactions[2].prospectId].airdropStatus = "sent"
    /\ arun[1].sent = 2
    /\ SentToday(daily_limits) = 2

====
